---- MODULE Spec2Model ----
(***************************************************************************)
(* Obsidian Radar: the direct-manipulation interaction state machine       *)
(* (ui/RadarInteractions.ts), the coordinate math it uses                  *)
(* (utils/polarCoordinates.ts) and the part of the view coordinator that   *)
(* constructs it and receives its intents (ui/RadarView.ts).               *)
(*                                                                         *)
(* Numbers.  JavaScript numbers are modelled as follows.                   *)
(*  - Pointer coordinates (clientX/clientY), pan offsets and wheel deltas  *)
(*    are integers (pixels).                                               *)
(*  - Zoom values are integers in units of 1/ZoomDen: zoom 1 is ZoomDen.   *)
(*  - Canvas (viewBox) coordinates are IEEE-style extended rationals: a    *)
(*    record [n, d] in lowest terms with d > 0, or d = 0 for the           *)
(*    non-finite values: n = 1 is +Infinity, n = -1 is -Infinity, n = 0 is *)
(*    NaN.  Division follows IEEE: v/0 is +-Infinity, 0/0 is NaN.          *)
(*  - Polar r is an integer in units of 1/RScale (floor), theta an integer *)
(*    number of degrees (floor); NaN is the sentinel PolarNaN.             *)
(***************************************************************************)
EXTENDS Integers, Sequences, FiniteSets

\* ------------------------------------------------------------ constants

\* Minimum distance in pixels to consider it a drag vs click
DRAG_THRESHOLD == 5

\* SVG_CONFIG
viewBoxSize == 600
maxRadius == 280
\* Zoom values are stored in units of 1/ZoomDen (zoomStep 0.25 = 1/4).
ZoomDen == 4
minZoom == 2
maxZoom == 16
zoomStep == 1

\* DEFAULT_VIEW_STATE
DefaultZoom == 4

\* Polar r is stored in units of 1/RScale.
RScale == 100
\* The value standing for NaN in a polar r or theta.
PolarNaN == -1000000

\* ------------------------------------------------------------ bounds

\* Number of events a behaviour handles.
MaxSteps == 4
\* Pan offsets are unbounded in the code; behaviours keep |pan| <= MaxPan.
MaxPan == 6
\* Length of the level and category lists handed to the classifiers.
MaxLevels == 4
\* Number of operations a behaviour calls on the view and its renderer.
MaxCalls == 3

\* ------------------------------------------------------------ inputs

Blips == {"b1", "b2"}
NoBlip == "null"
EmptyCanvas == "svg"

\* Pointer positions (clientX, clientY) the environment delivers: where
\* pointers go down, and where they move to and go up.
DownPoints == {<<300, 300>>}

Points == {<<300, 300>>, <<303, 304>>, <<302, 300>>, <<600, 300>>}

\* getBoundingClientRect() of the drawing surface: a square surface at the
\* origin, in three sizes (detached or hidden: 0).
SurfaceRects == {[left |-> 0, top |-> 0, width |-> w, height |-> w] : w \in {0, 600, 1200}}

\* Wheel deltas (deltaX, deltaY).
WheelDeltasX == {3}

WheelDeltasY == {-3, 3}

\* The elements of a list.
Elements(list) == {list[i] : i \in DOMAIN list}

\* Sequences without repetition of at most n elements of a set.
RECURSIVE Arrangements(_, _)
Arrangements(S, n) ==
    IF n = 0 THEN {<<>>}
    ELSE LET shorter == Arrangements(S, n - 1)
             longest == {q \in shorter : Len(q) = n - 1}
         IN  shorter \cup UNION {{Append(q, x) : x \in S \ Elements(q)} : q \in longest}

\* Priority levels (maxRadius in hundredths): the default rings 0.25, 0.5,
\* 0.75, 1, and a second level at 0.5.
PriorityLevels == {[id |-> "p1", maxRadius |-> 25], [id |-> "p2", maxRadius |-> 50],
                   [id |-> "p3", maxRadius |-> 75], [id |-> "p4", maxRadius |-> 100],
                   [id |-> "p5", maxRadius |-> 50]}

\* The level lists handed to getPriorityFromRadius: every order of every
\* choice of at most MaxLevels levels.
PriorityLists == Arrangements(PriorityLevels, MaxLevels) \ {<<>>}

\* The radial distances handed to getPriorityFromRadius (hundredths).
Radii == {0, 24, 25, 26, 50, 51, 75, 100, 101, 150}

\* Categories (startAngle in degrees): the default quadrants 0, 90, 180, 270,
\* and a second category at 90.
Categories == {[id |-> "c1", startAngle |-> 0], [id |-> "c2", startAngle |-> 90],
               [id |-> "c3", startAngle |-> 180], [id |-> "c4", startAngle |-> 270],
               [id |-> "c5", startAngle |-> 90]}

\* The category lists handed to getCategoryFromAngle: the empty list and
\* every order of every choice of at most MaxLevels categories.
CategoryLists == Arrangements(Categories, MaxLevels)

\* The angles handed to getCategoryFromAngle (degrees): negative, in range,
\* on segment boundaries, and a turn or more.
Thetas == {-370, -350, -90, -10, 0, 45, 89, 90, 91, 269, 359, 360, 405, 720}

\* The polar positions and pixel radii handed to the round trip
\* polarToCartesian then cartesianToPolar: r in hundredths from the centre to
\* the rim, every whole-degree theta of [0, 360), three pixel radii.
RoundTripRadii == {0, 5, 25, 50, 100}

RoundTripThetas == 0..359

RoundTripMaxRadii == {100, 280, 1000}

\* The numbers handed to clamp: values (NaN among them) and finite bounds,
\* in either order.
ClampValues == {PolarNaN} \cup (-2..3)

ClampBounds == -1..2

\* ------------------------------------------------------------ arithmetic

Abs(n) == IF n < 0 THEN -n ELSE n

Sgn(n) == IF n < 0 THEN -1 ELSE IF n > 0 THEN 1 ELSE 0

RECURSIVE Gcd(_, _)
Gcd(a, b) == IF b = 0 THEN a ELSE Gcd(b, a % b)

Lcm(a, b) == (a \div Gcd(a, b)) * b

\* The extended rational n/d in canonical form.
Rat(n, d) ==
    IF d = 0 THEN [n |-> Sgn(n), d |-> 0]
    ELSE LET g == Gcd(Abs(n), Abs(d))
             s == Sgn(d)
         IN  [n |-> (s * n) \div g, d |-> Abs(d) \div g]

Num(i) == [n |-> i, d |-> 1]

\* The number -0: equal to 0 in every comparison and product, told apart by
\* Math.atan2 only.
NegZero == [n |-> 0, d |-> -1]

\* n/d carrying the sign of its factors when it is zero.
SignedRat(n, d, negative) == IF n = 0 /\ d # 0 /\ negative THEN NegZero ELSE Rat(n, d)

\* A number without the sign of zero.
Unsigned(v) == IF v = NegZero THEN Num(0) ELSE v

IsNaN(v) == v.d = 0 /\ v.n = 0

IsInf(v) == v.d = 0 /\ v.n # 0

\* a / b for b >= 0 (IEEE division: v/0 is +-Infinity, 0/0 is NaN).
FDiv(a, b) == Rat(a.n * b.d, a.d * b.n)

\* Math.min / Math.max on polar values: NaN if either argument is NaN.
MathMin(a, b) == IF a = PolarNaN \/ b = PolarNaN THEN PolarNaN ELSE IF a < b THEN a ELSE b

MathMax(a, b) == IF a = PolarNaN \/ b = PolarNaN THEN PolarNaN ELSE IF a > b THEN a ELSE b

\* Clamp a value between min and max
clamp(value, min, max) == MathMax(min, MathMin(max, value))

\* ------------------------------------------------------------ trigonometry

\* 1000 * tan(k degrees), k = 0..45 (the index is k + 1).
TanTable == <<0, 17, 35, 52, 70, 87, 105, 123, 141, 158, 176, 194, 213, 231, 249,
              268, 287, 306, 325, 344, 364, 384, 404, 424, 445, 466, 488, 510, 532,
              554, 577, 601, 625, 649, 675, 700, 727, 754, 781, 810, 839, 869, 900,
              933, 966, 1000>>

\* 1000 * sin(k degrees), k = 0..90 (the index is k + 1).
SinTable == <<0, 17, 35, 52, 70, 87, 105, 122, 139, 156, 174, 191, 208, 225, 242,
              259, 276, 292, 309, 326, 342, 358, 375, 391, 407, 423, 438, 454, 469,
              485, 500, 515, 530, 545, 559, 574, 588, 602, 616, 629, 643, 656, 669,
              682, 695, 707, 719, 731, 743, 755, 766, 777, 788, 799, 809, 819, 829,
              839, 848, 857, 866, 875, 883, 891, 899, 906, 914, 921, 927, 934, 940,
              946, 951, 956, 961, 966, 970, 974, 978, 982, 985, 988, 990, 993, 995,
              996, 998, 999, 999, 1000, 1000>>

TrigScale == 1000

\* Math.sin of an angle in whole degrees, times TrigScale.
Sin1000(deg) ==
    LET t == deg % 360
    IN  IF t <= 90 THEN SinTable[t + 1]
        ELSE IF t <= 180 THEN SinTable[(180 - t) + 1]
        ELSE IF t <= 270 THEN -SinTable[(t - 180) + 1]
        ELSE -SinTable[(360 - t) + 1]

\* Math.cos of an angle in whole degrees, times TrigScale.
Cos1000(deg) == Sin1000(deg + 90)

\* The sign bit of Math.sin and Math.cos of deg * Math.PI / 180 for
\* 0 <= deg < 360.  Math.PI is below pi: Math.cos is positive at 90 and
\* negative at 270, Math.sin is positive at 180.
SinNegative(deg) == deg % 360 > 180

CosNegative(deg) == deg % 360 > 90 /\ deg % 360 <= 270

\* floor of atan(a / b) in degrees, for 0 <= a <= b, b > 0.
FloorAtanDeg(a, b) ==
    CHOOSE k \in 0..45 :
        /\ TanTable[k + 1] * b <= TrigScale * a
        /\ (k < 45 => TanTable[k + 2] * b > TrigScale * a)

\* Math.atan2(y, x) * 180 / Math.PI, rounded down to whole degrees: a value
\* in -180..180.  Only the ratio of the arguments matters, so they are given
\* as integers on a common scale.
Atan2Deg(y, x) ==
    LET ay == Abs(y)
        ax == Abs(x)
        exact == y = 0 \/ x = 0 \/ ax = ay
        fl == IF ay <= ax THEN FloorAtanDeg(ay, ax)
              ELSE IF x = 0 THEN 90
              ELSE 89 - FloorAtanDeg(ax, ay)
        ce == IF exact THEN fl ELSE fl + 1
    IN  IF x = 0 /\ y = 0 THEN 0
        ELSE IF y >= 0 THEN (IF x >= 0 THEN fl ELSE 180 - ce)
        ELSE (IF x >= 0 THEN -ce ELSE -180 + fl)

\* Math.atan2(y, x) * 180 / Math.PI for two zeros, given their sign bits:
\* +-0 for x = +0 and +-180 for x = -0, with the sign of y.
Atan2DegOfZeros(yNegative, xNegative) ==
    IF xNegative THEN (IF yNegative THEN -180 ELSE 180) ELSE 0

\* ------------------------------------------------------------ coordinate math

\* floor(RScale * sqrt(s) / (m * d)), saturated at RScale + 1 (every use
\* takes the minimum with 1 at once).
RadiusOf(s, d, m) ==
    LET g == Gcd(m, RScale)
        a == (m \div g) * d
        b == (RScale \div g) * (RScale \div g) * s
    IN  CHOOSE k \in 0..(RScale + 1) :
            /\ (a * k) * (a * k) <= b
            /\ (k <= RScale => (a * (k + 1)) * (a * (k + 1)) > b)

\* polarToCartesian with y pointing up: the y coordinate is not negated.
polarToCartesianYUp(r, thetaDegrees, maxRadiusPx) ==
    IF r = PolarNaN \/ thetaDegrees = PolarNaN
    THEN [x |-> Rat(0, 0), y |-> Rat(0, 0)]
    ELSE LET actualRadius == r * maxRadiusPx
         IN  [x |-> SignedRat(actualRadius * Cos1000(thetaDegrees), RScale * TrigScale,
                              CosNegative(thetaDegrees)),
              y |-> SignedRat(actualRadius * Sin1000(thetaDegrees), RScale * TrigScale,
                              SinNegative(thetaDegrees))]

\* Convert polar coordinates to Cartesian (r >= 0, maxRadiusPx > 0)
polarToCartesian(r, thetaDegrees, maxRadiusPx) ==
    IF r = PolarNaN \/ thetaDegrees = PolarNaN
    THEN [x |-> Rat(0, 0), y |-> Rat(0, 0)]
    ELSE LET actualRadius == r * maxRadiusPx
         IN  [x |-> SignedRat(actualRadius * Cos1000(thetaDegrees), RScale * TrigScale,
                              CosNegative(thetaDegrees)),
              y |-> SignedRat(-actualRadius * Sin1000(thetaDegrees), RScale * TrigScale,
                              ~SinNegative(thetaDegrees))]

\* Convert Cartesian coordinates to polar
cartesianToPolar(x, y, maxRadiusPx) ==
    IF IsNaN(x) \/ IsNaN(y) THEN [r |-> PolarNaN, theta |-> PolarNaN]
    ELSE LET ux == Unsigned(x)
             uy == Unsigned(y)
             inf == IsInf(x) \/ IsInf(y)
             D == IF inf THEN 1 ELSE Lcm(ux.d, uy.d)
             X == IF inf THEN (IF IsInf(x) THEN x.n ELSE 0) ELSE ux.n * (D \div ux.d)
             Y == IF inf THEN (IF IsInf(y) THEN y.n ELSE 0) ELSE uy.n * (D \div uy.d)
             r == IF inf THEN RScale + 1 ELSE RadiusOf(X * X + Y * Y, D, maxRadiusPx)
             theta == IF X = 0 /\ Y = 0 THEN Atan2DegOfZeros(y # NegZero, x = NegZero)
                      ELSE Atan2Deg(-Y, X)
         IN  [r |-> MathMin(r, RScale),
              theta |-> IF theta < 0 THEN theta + 360 ELSE theta]

\* The value `undefined` where a priority level is expected.
UndefinedLevel == [id |-> "undefined", maxRadius |-> PolarNaN]

\* [...priorities].sort((a, b) => a.maxRadius - b.maxRadius): Array.prototype.sort
\* is stable, levels of equal maxRadius keep their input order.
RECURSIVE InsertByMaxRadius(_, _)
InsertByMaxRadius(level, sorted) ==
    IF sorted = <<>> THEN <<level>>
    ELSE IF sorted[Len(sorted)].maxRadius <= level.maxRadius THEN Append(sorted, level)
    ELSE Append(InsertByMaxRadius(level, SubSeq(sorted, 1, Len(sorted) - 1)), sorted[Len(sorted)])

RECURSIVE SortByMaxRadius(_)
SortByMaxRadius(priorities) ==
    IF priorities = <<>> THEN <<>>
    ELSE InsertByMaxRadius(priorities[Len(priorities)],
                           SortByMaxRadius(SubSeq(priorities, 1, Len(priorities) - 1)))

\* getPriorityFromRadius taking the levels in their input order, unsorted.
getPriorityFromRadiusUnsorted(r, priorities) ==
    LET sorted == priorities
        hits == {i \in DOMAIN sorted : r <= sorted[i].maxRadius}
    IN  IF hits # {} THEN sorted[CHOOSE i \in hits : \A j \in hits : i <= j]
        ELSE IF sorted # <<>> THEN sorted[Len(sorted)]
        ELSE UndefinedLevel

\* Get the priority level for a given radial distance
getPriorityFromRadius(r, priorities) ==
    LET sorted == SortByMaxRadius(priorities)
        hits == {i \in DOMAIN sorted : r <= sorted[i].maxRadius}
    IN  IF hits # {} THEN sorted[CHOOSE i \in hits : \A j \in hits : i <= j]
        ELSE IF sorted # <<>> THEN sorted[Len(sorted)]
        ELSE UndefinedLevel

\* The value `undefined` where a category is expected.
UndefinedCategory == [id |-> "undefined", startAngle |-> PolarNaN]

\* a % b of JavaScript for integers, b > 0: the remainder has the sign of a.
JsRem(a, b) == IF a >= 0 THEN a % b ELSE -((-a) % b)

\* [...categories].sort((a, b) => a.startAngle - b.startAngle), stable.
RECURSIVE InsertByStartAngle(_, _)
InsertByStartAngle(category, sorted) ==
    IF sorted = <<>> THEN <<category>>
    ELSE IF sorted[Len(sorted)].startAngle <= category.startAngle THEN Append(sorted, category)
    ELSE Append(InsertByStartAngle(category, SubSeq(sorted, 1, Len(sorted) - 1)),
                sorted[Len(sorted)])

RECURSIVE SortByStartAngle(_)
SortByStartAngle(categories) ==
    IF categories = <<>> THEN <<>>
    ELSE InsertByStartAngle(categories[Len(categories)],
                            SortByStartAngle(SubSeq(categories, 1, Len(categories) - 1)))

\* getCategoryFromAngle without the shift of a negative remainder by 360.
getCategoryFromAngleUnshifted(theta, categories) ==
    IF Len(categories) = 0 THEN UndefinedCategory
    ELSE LET normalizedTheta == JsRem(theta, 360)
             sorted == SortByStartAngle(categories)
             hits == {i \in DOMAIN sorted : normalizedTheta >= sorted[i].startAngle}
         IN  IF hits # {} THEN sorted[CHOOSE i \in hits : \A j \in hits : i >= j]
             ELSE sorted[Len(sorted)]

\* Get the category for a given angle
getCategoryFromAngle(theta, categories) ==
    IF Len(categories) = 0 THEN UndefinedCategory
    ELSE LET remainder == JsRem(theta, 360)
             normalizedTheta == IF remainder < 0 THEN remainder + 360 ELSE remainder
             sorted == SortByStartAngle(categories)
             hits == {i \in DOMAIN sorted : normalizedTheta >= sorted[i].startAngle}
         IN  IF hits # {} THEN sorted[CHOOSE i \in hits : \A j \in hits : i >= j]
             ELSE sorted[Len(sorted)]

\* Get the next category in sequence
getNextCategory(current, categories) ==
    LET sorted == SortByStartAngle(categories)
        found == {i \in DOMAIN sorted : sorted[i].startAngle = current.startAngle}
        currentIndex == IF found = {} THEN -1 ELSE CHOOSE i \in found : \A j \in found : i <= j
    IN  IF currentIndex = -1 \/ currentIndex = Len(sorted)
        THEN (IF sorted = <<>> THEN UndefinedCategory ELSE sorted[1])
        ELSE sorted[currentIndex + 1]

\* Calculate mid angle between two angles (a rational number of degrees)
getMidAngle(startAngle, endAngle) ==
    LET end == IF endAngle < startAngle THEN endAngle + 360 ELSE endAngle
    IN  Rat(startAngle + end, 2)

\* renderCategoryDividers: the angle at which the label of a named category
\* is placed.
categoryLabelAngle(category, categories) ==
    LET nextCategory == getNextCategory(category, categories)
    IN  IF nextCategory # UndefinedCategory
        THEN getMidAngle(category.startAngle, nextCategory.startAngle)
        ELSE getMidAngle(category.startAngle,
                         category.startAngle + 360 \div Len(categories))

\* Get SVG coordinates from screen coordinates
getSvgCoordinates(clientX, clientY, rect, zoom) ==
    LET offsetX == FDiv(Rat(2 * clientX - (2 * rect.left + rect.width), 2), Rat(zoom, ZoomDen))
        offsetY == FDiv(Rat(2 * clientY - (2 * rect.top + rect.height), 2), Rat(zoom, ZoomDen))
        baseScale == Rat(rect.width, viewBoxSize)
    IN  [x |-> FDiv(offsetX, baseScale), y |-> FDiv(offsetY, baseScale)]

\* The transform attribute `translate(${x},${y})` of a blip element: a
\* template literal prints -0 as "0".
FormatTranslate(coords) ==
    [fn |-> "translate", args |-> <<Unsigned(coords.x), Unsigned(coords.y)>>]

\* transform?.match(/translate\(([^,]+),([^)]+)\)/) followed by parseFloat of
\* both groups: the two numbers, or no match.  A JavaScript number printed by
\* a template literal parses back to the same number ("NaN" and "Infinity"
\* included).
NoMatch == [matched |-> FALSE, x |-> Num(0), y |-> Num(0)]

ParseTranslate(attr) ==
    IF attr.fn = "translate" /\ Len(attr.args) = 2
    THEN [matched |-> TRUE, x |-> attr.args[1], y |-> attr.args[2]]
    ELSE NoMatch

\* ------------------------------------------------------------ state

VARIABLES
    \* RadarInteractions: blip drag state
    draggedBlip, dragStartX, dragStartY, hasDragged, currentZoom,
    \* RadarInteractions: pan state
    isPanning, panStartX, panStartY, currentPanX, currentPanY,
    panStartOffsetX, panStartOffsetY,
    \* the scene: blips carrying the class "dragging", the surface carrying
    \* the class "panning", the transform attribute of every blip element
    dragging, panning, transform,
    \* RadarView: the loaded data model (blip positions and view state)
    radarData,
    \* what the last handled event did: the event, the calls it made on the
    \* options surface in order, and whether it ended in an exception
    lastEvent, intents, threw,
    \* the gesture in progress: where its pointer-downs landed, and whether
    \* one of its pointer-moves was DRAG_THRESHOLD or more from the down-point
    gestureStart, reached,
    \* the device listeners registered and not removed: where, for which
    \* event, and whether the instance that registered it is the one the view
    \* holds ("live") or one it has destroyed
    listeners,
    \* the last call of a coordinate utility made on its own: the function,
    \* its arguments and what it returned
    utilityCall,
    \* number of events handled
    steps,
    \* RadarView and its renderer: the data model (radarData), the scene
    \* (renderer), the device listeners of the view's interaction instances
    \* (listeners), the saves requested, the clock Date.now() reads, and the
    \* last operation called on either with its arguments
    view

interactionVars == <<draggedBlip, dragStartX, dragStartY, hasDragged, currentZoom,
                     isPanning, panStartX, panStartY, currentPanX, currentPanY,
                     panStartOffsetX, panStartOffsetY>>

vars == <<draggedBlip, dragStartX, dragStartY, hasDragged, currentZoom,
          isPanning, panStartX, panStartY, currentPanX, currentPanY,
          panStartOffsetX, panStartOffsetY, dragging, panning, transform,
          radarData, lastEvent, intents, threw, gestureStart, reached, listeners, utilityCall, steps,
          view>>

\* Everything but the record of the last utility call.
viewVars == <<draggedBlip, dragStartX, dragStartY, hasDragged, currentZoom,
              isPanning, panStartX, panStartY, currentPanX, currentPanY,
              panStartOffsetX, panStartOffsetY, dragging, panning, transform,
              radarData, lastEvent, intents, threw, gestureStart, reached, listeners, steps,
              view>>

\* ------------------------------------------------------------ intents

BlipMoved(blipId, r, theta) == [intent |-> "onBlipMove", blipId |-> blipId, a |-> r, b |-> theta]

BlipClicked(blipId) == [intent |-> "onBlipClick", blipId |-> blipId, a |-> 0, b |-> 0]

ZoomChanged(zoom) == [intent |-> "onZoomChange", blipId |-> NoBlip, a |-> zoom, b |-> 0]

PanChanged(panX, panY) == [intent |-> "onPanChange", blipId |-> NoBlip, a |-> panX, b |-> panY]

\* The callbacks RadarView.renderRadar passes to the RadarInteractions
\* constructor.
RadarViewOptions == {"onBlipMove", "onZoomChange", "onPanChange"}

\* Calling this.options.<callback>(...) returns normally iff the callback
\* was passed; calling a missing one raises a TypeError.
Callable(callback) == callback \in RadarViewOptions

\* RadarView.onBlipMove -> RadarStore.updateBlipPosition
RadarView_onBlipMove(data, blipId, r, theta) ==
    IF blipId \in DOMAIN data.blips
    THEN [data EXCEPT !.blips[blipId] = [r |-> r, theta |-> theta]]
    ELSE data

\* RadarView.onZoomChange
RadarView_onZoomChange(data, zoom) == [data EXCEPT !.viewState.zoom = zoom]

\* RadarView.onPanChange
RadarView_onPanChange(data, panX, panY) ==
    [data EXCEPT !.viewState.panX = panX, !.viewState.panY = panY]

\* ------------------------------------------------------------ data snapshots

DEFAULT_VIEW_STATE == [zoom |-> DefaultZoom, panX |-> 0, panY |-> 0]

\* Zoom values a radar file may hold (0, 0.5, 1, 4 and 5).
PersistedZooms == {0, 2, 4, 16, 20}

\* The view states a radar file may hold.
PersistedViewStates ==
    {[zoom |-> z, panX |-> 0, panY |-> 0] : z \in PersistedZooms}
        \cup {[zoom |-> DefaultZoom, panX |-> 3, panY |-> 0]}

\* The blips of the radar files: b1 at r = 0.5, theta = 0 and b2 at r = 1,
\* theta = 90.
SnapshotBlips == [b \in Blips |-> IF b = "b1" THEN [r |-> 50, theta |-> 0]
                                            ELSE [r |-> 100, theta |-> 90]]

\* RadarRenderer.renderBlip: the transform attribute of a blip element.
renderBlip(blip) == FormatTranslate(polarToCartesian(blip.r, blip.theta, maxRadius))

\* ------------------------------------------------------------ utility calls

NoCall == [op |-> "none", args |-> <<>>, result |-> <<>>]

Called(op, args, result) == [op |-> op, args |-> args, result |-> result]

\* ------------------------------------------------------------ radar files

\* RadarView.radarData before a file is loaded and after clear().
NoRadar == [null |-> TRUE]

\* The id generateId() returns next, and an id no blip carries.
GeneratedId == "b3"
UnknownId == "b9"

\* A blip as a radar file stores it.
FileBlip(id, r, theta, at) == [id |-> id, r |-> r, theta |-> theta, updatedAt |-> at]

\* The radar files the view is given: two blips in range under the default
\* view state; one blip stored outside the unit disc (r = 1.5, theta = 400)
\* with a named category, zoomed and panned; no blips.
RadarFiles ==
    LET DEFAULT_PRIORITIES ==
            <<[id |-> "p1", name |-> "Critical", maxRadius |-> 25],
              [id |-> "p2", name |-> "High", maxRadius |-> 50],
              [id |-> "p3", name |-> "Medium", maxRadius |-> 75],
              [id |-> "p4", name |-> "Low", maxRadius |-> 100]>>
        DEFAULT_CATEGORIES ==
            <<[id |-> "c1", name |-> "", startAngle |-> 0],
              [id |-> "c2", name |-> "", startAngle |-> 90],
              [id |-> "c3", name |-> "", startAngle |-> 180],
              [id |-> "c4", name |-> "", startAngle |-> 270]>>
    IN  {[blips |-> <<FileBlip("b1", 50, 0, 0), FileBlip("b2", 100, 90, 0)>>,
          priorityLevels |-> DEFAULT_PRIORITIES, categories |-> DEFAULT_CATEGORIES,
          viewState |-> DEFAULT_VIEW_STATE, updatedAt |-> 0],
         [blips |-> <<FileBlip("b1", 150, 400, 0)>>,
          priorityLevels |-> SubSeq(DEFAULT_PRIORITIES, 1, 2),
          categories |-> <<[id |-> "c1", name |-> "Tools", startAngle |-> 0]>>,
          viewState |-> [zoom |-> 8, panX |-> 3, panY |-> 0], updatedAt |-> 0],
         [blips |-> <<>>,
          priorityLevels |-> DEFAULT_PRIORITIES, categories |-> DEFAULT_CATEGORIES,
          viewState |-> DEFAULT_VIEW_STATE, updatedAt |-> 0]}

\* The positions handed to the operations that place a blip (r in 1/RScale,
\* theta in degrees): inside the unit disc, and beyond it by more than a
\* turn.
ScenePositions == {<<25, 180>>, <<150, 400>>}

\* Array.prototype.findIndex by blip id: the first index, or 0 for none.
IndexOfBlip(blips, blipId) ==
    IF \E i \in DOMAIN blips : blips[i].id = blipId
    THEN CHOOSE i \in DOMAIN blips :
             /\ blips[i].id = blipId
             /\ \A j \in 1..(i - 1) : blips[j].id # blipId
    ELSE 0

\* Array.prototype.splice(index, 1)
RemoveAt(list, index) ==
    [i \in 1..(Len(list) - 1) |-> IF i < index THEN list[i] ELSE list[i + 1]]

\* ------------------------------------------------------------ RadarStore

\* updateBlipPosition storing r and leaving theta as it was.
RadarStore_updateBlipPositionRadiusOnly(data, blipId, r, theta, now) ==
    LET i == IndexOfBlip(data.blips, blipId)
    IN  IF i = 0 THEN data
        ELSE [data EXCEPT !.blips[i].r = r,
                          !.blips[i].updatedAt = now,
                          !.updatedAt = now]

\* updateBlipPosition stamping the radar when the id is unknown.
RadarStore_updateBlipPositionStamping(data, blipId, r, theta, now) ==
    LET i == IndexOfBlip(data.blips, blipId)
    IN  IF i = 0 THEN [data EXCEPT !.updatedAt = now]
        ELSE [data EXCEPT !.blips[i].r = r,
                          !.blips[i].theta = theta,
                          !.blips[i].updatedAt = now,
                          !.updatedAt = now]

\* Update a blip's position
RadarStore_updateBlipPosition(data, blipId, r, theta, now) ==
    LET i == IndexOfBlip(data.blips, blipId)
    IN  IF i = 0 THEN data
        ELSE [data EXCEPT !.blips[i].r = r,
                          !.blips[i].theta = theta,
                          !.blips[i].updatedAt = now,
                          !.updatedAt = now]

\* Add a new blip to the radar
RadarStore_addBlip(data, id, r, theta, now) ==
    [data EXCEPT !.blips = Append(@, FileBlip(id, r, theta, now)),
                 !.updatedAt = now]

\* Remove a blip from the radar
RadarStore_removeBlip(data, blipId, now) ==
    LET i == IndexOfBlip(data.blips, blipId)
    IN  IF i = 0 THEN data
        ELSE [data EXCEPT !.blips = RemoveAt(@, i), !.updatedAt = now]

\* ------------------------------------------------------------ RadarRenderer

\* RadarView.renderer before a file is loaded and after clear().
NoRenderer == [null |-> TRUE]

\* Render priority rings: a circle per level, in list order, followed by
\* its label when the level has a name.
RECURSIVE renderPriorityRings(_)
renderPriorityRings(priorityLevels) ==
    IF priorityLevels = <<>> THEN <<>>
    ELSE LET priority == Head(priorityLevels)
             circle == [tag |-> "circle",
                        r |-> Rat(priority.maxRadius * maxRadius, RScale)]
             label == [tag |-> "text", text |-> priority.name]
         IN  (IF priority.name # "" THEN <<circle, label>> ELSE <<circle>>)
                 \o renderPriorityRings(Tail(priorityLevels))

\* Render category dividers: a line per category from the center to the
\* edge (its end point relative to the center), followed by its label at
\* the middle angle of the segment when the category has a name.
RECURSIVE renderDividersOf(_, _)
renderDividersOf(rest, categories) ==
    IF rest = <<>> THEN <<>>
    ELSE LET category == Head(rest)
             line == [tag |-> "line",
                      end |-> polarToCartesian(RScale, category.startAngle, maxRadius)]
             label == [tag |-> "text", text |-> category.name,
                       angle |-> categoryLabelAngle(category, categories)]
         IN  (IF category.name # "" THEN <<line, label>> ELSE <<line>>)
                 \o renderDividersOf(Tail(rest), categories)

renderCategoryDividers(categories) == renderDividersOf(categories, categories)

\* Render a single blip: the group appended to the blips layer.
BlipElement(blip) == [id |-> blip.id, transform |-> renderBlip(blip)]

\* render() appending the blips layer to the svg again, which moves the
\* layer it renders first behind nothing: the layers end up rotated.
renderReappending(renderer, data) ==
    [renderer EXCEPT !.children = Tail(@) \o <<Head(@)>>,
                     !.background = renderPriorityRings(data.priorityLevels),
                     !.categories = renderCategoryDividers(data.categories),
                     !.blips = [i \in DOMAIN data.blips |-> BlipElement(data.blips[i])]]

\* Full render of the radar: the three groups are emptied and filled again
\* from the data.
render(renderer, data) ==
    [renderer EXCEPT !.background = renderPriorityRings(data.priorityLevels),
                     !.categories = renderCategoryDividers(data.categories),
                     !.blips = [i \in DOMAIN data.blips |-> BlipElement(data.blips[i])]]

\* new RadarRenderer(container, radarData, options): the svg with its three
\* groups appended in order, no style transform, rendered.  The renderer
\* holds the object the view holds (shared) until updateData gives it
\* another.
NewRenderer(data) ==
    render([children |-> <<"radar-background", "radar-categories", "radar-blips">>,
            radarData |-> [shared |-> TRUE], background |-> <<>>, categories |-> <<>>,
            blips |-> <<>>, style |-> <<>>], data)

\* updateBlipPosition rewriting every blip element from the position given.
RadarRenderer_updateBlipPositionAll(renderer, blipId, r, theta) ==
    [renderer EXCEPT !.blips =
        [i \in DOMAIN @ |-> [@[i] EXCEPT !.transform =
                                 renderBlip([r |-> r, theta |-> theta])]]]

\* Update a single blip's position (for drag operations): the first element
\* carrying the id, if any.
RadarRenderer_updateBlipPosition(renderer, blipId, r, theta) ==
    LET i == IndexOfBlip(renderer.blips, blipId)
    IN  IF i = 0 THEN renderer
        ELSE [renderer EXCEPT !.blips[i].transform =
                                  renderBlip([r |-> r, theta |-> theta])]

\* Add a new blip to the radar
RadarRenderer_addBlip(renderer, blip) ==
    [renderer EXCEPT !.blips = Append(@, BlipElement(blip))]

\* removeBlip removing the element the layer ends with, whatever its id.
RadarRenderer_removeBlipLast(renderer, blipId) ==
    IF renderer.blips = <<>> THEN renderer
    ELSE [renderer EXCEPT !.blips = RemoveAt(@, Len(@))]

\* Remove a blip from the radar
RadarRenderer_removeBlip(renderer, blipId) ==
    LET i == IndexOfBlip(renderer.blips, blipId)
    IN  IF i = 0 THEN renderer
        ELSE [renderer EXCEPT !.blips = RemoveAt(@, i)]

\* The scale the style transform holds (1 when it holds none).
ScaleOf(style) ==
    IF \E i \in DOMAIN style : style[i].fn = "scale"
    THEN (CHOOSE f \in Elements(style) : f.fn = "scale").args[1]
    ELSE DefaultZoom

\* Set zoom level: the style transform becomes scale(zoom) alone.
RadarRenderer_setZoom(renderer, scale) ==
    [renderer EXCEPT !.style = <<[fn |-> "scale", args |-> <<scale>>]>>]

\* setTransform: one composed transform, the scale about the center and
\* then the translation.
RadarRenderer_setTransform(renderer, zoom, panX, panY) ==
    [renderer EXCEPT !.style = <<[fn |-> "scale", args |-> <<zoom>>],
                                [fn |-> "translate", args |-> <<panX, panY>>]>>]

\* setPan: the composed transform with the scale it had.
RadarRenderer_setPan(renderer, panX, panY) ==
    RadarRenderer_setTransform(renderer, ScaleOf(renderer.style), panX, panY)

\* ------------------------------------------------------------ listeners

Listener(target, type, owner) == [target |-> target, type |-> type, owner |-> owner]

\* setupEventListeners: the listeners an instance registers when constructed.
setupEventListeners(owner) ==
    {Listener("svg", "mousedown", owner),
     Listener("document", "mousemove", owner),
     Listener("document", "mouseup", owner),
     Listener("svg", "touchstart", owner),
     Listener("document", "touchmove", owner),
     Listener("document", "touchend", owner),
     Listener("svg", "wheel", owner)}

\* destroy() forgetting to remove the mouseup listener from the document.
destroyLeavingMouseUp(registered) ==
    LET removed == {Listener("document", "mousemove", "live"),
                    Listener("document", "touchmove", "live"),
                    Listener("document", "touchend", "live"),
                    Listener("svg", "wheel", "live")}
        left == {l \in registered : l.owner = "live"} \ removed
    IN  {l \in registered : l.owner # "live"}
            \cup {Listener(l.target, l.type, "destroyed") : l \in left}

\* destroy() forgetting to remove the wheel listener from the surface.
destroyLeavingWheel(registered) ==
    LET removed == {Listener("document", "mousemove", "live"),
                    Listener("document", "mouseup", "live"),
                    Listener("document", "touchmove", "live"),
                    Listener("document", "touchend", "live")}
        left == {l \in registered : l.owner = "live"} \ removed
    IN  {l \in registered : l.owner # "live"}
            \cup {Listener(l.target, l.type, "destroyed") : l \in left}

\* Clean up event listeners: the registered listeners after destroy() of the
\* live instance.  What it does not remove stays registered, owned by a
\* destroyed instance.
destroy(registered) ==
    LET removed == {Listener("document", "mousemove", "live"),
                    Listener("document", "mouseup", "live"),
                    Listener("document", "touchmove", "live"),
                    Listener("document", "touchend", "live"),
                    Listener("svg", "wheel", "live")}
        left == {l \in registered : l.owner = "live"} \ removed
    IN  {l \in registered : l.owner # "live"}
            \cup {Listener(l.target, l.type, "destroyed") : l \in left}

\* An event reaches its handler through a listener of the live instance.
Delivered(target, type) ==
    /\ Listener(target, type, "live") \in listeners
    /\ UNCHANGED listeners

\* ------------------------------------------------------------ construction

\* new RadarInteractions(...): the field initialisers.
NewInteractions ==
    /\ draggedBlip' = NoBlip
    /\ dragStartX' = 0
    /\ dragStartY' = 0
    /\ hasDragged' = FALSE
    /\ isPanning' = FALSE
    /\ panStartX' = 0
    /\ panStartY' = 0
    /\ panStartOffsetX' = 0
    /\ panStartOffsetY' = 0

\* The state after RadarView has rendered a new radar file
\* (RadarStore.createNewRadarData: the default view state).
Init ==
    /\ draggedBlip = NoBlip
    /\ dragStartX = 0
    /\ dragStartY = 0
    /\ hasDragged = FALSE
    /\ currentZoom = DefaultZoom
    /\ isPanning = FALSE
    /\ panStartX = 0
    /\ panStartY = 0
    /\ currentPanX = 0
    /\ currentPanY = 0
    /\ panStartOffsetX = 0
    /\ panStartOffsetY = 0
    /\ dragging = {}
    /\ panning = FALSE
    /\ transform = [b \in Blips |-> renderBlip(SnapshotBlips[b])]
    /\ radarData = [blips |-> SnapshotBlips, viewState |-> DEFAULT_VIEW_STATE]
    /\ lastEvent = "init"
    /\ intents = <<>>
    /\ threw = FALSE
    /\ gestureStart = "none"
    /\ reached = FALSE
    /\ listeners = setupEventListeners("live")
    /\ utilityCall = NoCall
    /\ steps = 0
    /\ LET file == CHOOSE f \in RadarFiles : Len(f.blips) = 2
       IN  view = [radarData |-> file, renderer |-> NewRenderer(file),
                   listeners |-> setupEventListeners("live"), saves |-> 0,
                   now |-> 1, call |-> [op |-> "init", args |-> <<>>]]

\* What a handled event leaves for observation.
Observed(event, calls, exception) ==
    /\ steps' = steps + 1
    /\ lastEvent' = event
    /\ intents' = calls
    /\ threw' = exception
    /\ UNCHANGED <<utilityCall, view>>

\* ------------------------------------------------------------ pointer down

\* Start dragging a blip
startDrag(blipGroup, clientX, clientY) ==
    /\ draggedBlip' = blipGroup
    /\ dragStartX' = clientX
    /\ dragStartY' = clientY
    /\ hasDragged' = FALSE
    /\ dragging' = dragging \cup {blipGroup}
    /\ reached' = FALSE
    /\ UNCHANGED <<isPanning, panStartX, panStartY, panStartOffsetX, panStartOffsetY, panning>>

\* Start panning the radar
startPan(clientX, clientY) ==
    /\ isPanning' = TRUE
    /\ panStartX' = clientX
    /\ panStartY' = clientY
    /\ panStartOffsetX' = currentPanX
    /\ panStartOffsetY' = currentPanY
    /\ panning' = TRUE
    /\ UNCHANGED <<draggedBlip, dragStartX, dragStartY, hasDragged, dragging, reached>>

\* The pointer sequence in progress, until its pointer-up: "empty" while
\* every pointer-down of it was on empty canvas, "blip" once one was on a blip.
BeginGesture(target) ==
    gestureStart' = IF target \in Blips THEN "blip"
                    ELSE IF gestureStart = "none" THEN "empty" ELSE gestureStart

\* Mouse down on SVG - start blip drag or pan.  target is the blip element
\* target.closest(".radar-blip") finds, or EmptyCanvas.
onSvgMouseDown(target, p) ==
    /\ IF target \in Blips THEN startDrag(target, p[1], p[2]) ELSE startPan(p[1], p[2])
    /\ BeginGesture(target)
    /\ UNCHANGED <<currentZoom, currentPanX, currentPanY, transform, radarData>>
    /\ Observed("mousedown", <<>>, FALSE)

\* Touch start on SVG - start blip drag or pan.  touches is e.touches.length.
onSvgTouchStart(target, p, touches) ==
    /\ IF touches # 1
       THEN UNCHANGED <<draggedBlip, dragStartX, dragStartY, hasDragged, dragging, reached,
                        isPanning, panStartX, panStartY, panStartOffsetX, panStartOffsetY,
                        panning, gestureStart>>
       ELSE /\ IF target \in Blips THEN startDrag(target, p[1], p[2]) ELSE startPan(p[1], p[2])
            /\ BeginGesture(target)
    /\ UNCHANGED <<currentZoom, currentPanX, currentPanY, transform, radarData>>
    /\ Observed("touchstart", <<>>, FALSE)

\* ------------------------------------------------------------ pointer move

\* distance > DRAG_THRESHOLD, with distance = Math.sqrt(deltaX^2 + deltaY^2)
ExceedsThreshold(deltaX, deltaY) ==
    deltaX * deltaX + deltaY * deltaY > DRAG_THRESHOLD * DRAG_THRESHOLD

\* Update blip position during drag
updateDragPosition(clientX, clientY, rect) ==
    LET deltaX == clientX - dragStartX
        deltaY == clientY - dragStartY
        coords == getSvgCoordinates(clientX, clientY, rect, currentZoom)
    IN  /\ hasDragged' = (hasDragged \/ ExceedsThreshold(deltaX, deltaY))
        /\ transform' = [transform EXCEPT ![draggedBlip] = FormatTranslate(coords)]
        /\ reached' = (reached \/ deltaX * deltaX + deltaY * deltaY >= DRAG_THRESHOLD * DRAG_THRESHOLD)
        /\ UNCHANGED <<draggedBlip, dragStartX, dragStartY, currentZoom, isPanning, panStartX,
                       panStartY, currentPanX, currentPanY, panStartOffsetX, panStartOffsetY,
                       dragging, panning, radarData, gestureStart>>

\* updatePanPosition adding the pointer's travel to the current pan instead of
\* the pan captured at pointer-down.
updatePanPositionAccumulating(clientX, clientY, event) ==
    LET deltaX == clientX - panStartX
        deltaY == clientY - panStartY
        newPanX == currentPanX + deltaX
        newPanY == currentPanY + deltaY
    IN  /\ Abs(newPanX) <= MaxPan
        /\ Abs(newPanY) <= MaxPan
        /\ currentPanX' = newPanX
        /\ currentPanY' = newPanY
        /\ radarData' = RadarView_onPanChange(radarData, newPanX, newPanY)
        /\ Observed(event, <<PanChanged(newPanX, newPanY)>>, FALSE)
        /\ UNCHANGED <<draggedBlip, dragStartX, dragStartY, hasDragged, currentZoom, isPanning,
                       panStartX, panStartY, panStartOffsetX, panStartOffsetY, dragging,
                       panning, transform, gestureStart, reached>>

\* Update pan position during drag
updatePanPosition(clientX, clientY, event) ==
    LET deltaX == clientX - panStartX
        deltaY == clientY - panStartY
        newPanX == panStartOffsetX + deltaX
        newPanY == panStartOffsetY + deltaY
    IN  /\ Abs(newPanX) <= MaxPan
        /\ Abs(newPanY) <= MaxPan
        /\ currentPanX' = newPanX
        /\ currentPanY' = newPanY
        /\ radarData' = RadarView_onPanChange(radarData, newPanX, newPanY)
        /\ Observed(event, <<PanChanged(newPanX, newPanY)>>, FALSE)
        /\ UNCHANGED <<draggedBlip, dragStartX, dragStartY, hasDragged, currentZoom, isPanning,
                       panStartX, panStartY, panStartOffsetX, panStartOffsetY, dragging,
                       panning, transform, gestureStart, reached>>

\* An event the handler returns from without doing anything.
Ignored(event) ==
    /\ Observed(event, <<>>, FALSE)
    /\ UNCHANGED <<interactionVars, dragging, panning, transform, radarData, gestureStart, reached>>

\* Mouse move - update drag or pan position
onMouseMove(p, rect) ==
    IF draggedBlip # NoBlip
    THEN updateDragPosition(p[1], p[2], rect) /\ Observed("mousemove", <<>>, FALSE)
    ELSE IF isPanning THEN updatePanPosition(p[1], p[2], "mousemove")
    ELSE Ignored("mousemove")

\* Touch move - update drag or pan position
onTouchMove(p, touches, rect) ==
    IF touches # 1 THEN Ignored("touchmove")
    ELSE IF draggedBlip # NoBlip
    THEN updateDragPosition(p[1], p[2], rect) /\ Observed("touchmove", <<>>, FALSE)
    ELSE IF isPanning THEN updatePanPosition(p[1], p[2], "touchmove")
    ELSE Ignored("touchmove")

\* ------------------------------------------------------------ pointer up

\* this.options.<callback>(...) followed by
\* this.draggedBlip.classList.remove("dragging"); this.draggedBlip = null.
\* A call of a missing callback raises, and the two statements after it are
\* not reached.
callThenClear(event, call, dataAfter) ==
    IF Callable(call.intent)
    THEN /\ dragging' = dragging \ {draggedBlip}
         /\ draggedBlip' = NoBlip
         /\ radarData' = dataAfter
         /\ Observed(event, <<call>>, FALSE)
    ELSE /\ UNCHANGED <<dragging, draggedBlip, radarData>>
         /\ Observed(event, <<call>>, TRUE)

\* endDrag reading the position from the blip's transform attribute, as
\* onTouchEnd does, instead of converting the mouse-up coordinates.
endDragFromTransform(clientX, clientY, rect) ==
    LET blipId == draggedBlip
        match == ParseTranslate(transform[draggedBlip])
        polar == cartesianToPolar(match.x, match.y, maxRadius)
        r == clamp(polar.r, 0, RScale)
    IN  /\ IF hasDragged
           THEN callThenClear("mouseup", BlipMoved(blipId, r, polar.theta),
                              RadarView_onBlipMove(radarData, blipId, r, polar.theta))
           ELSE callThenClear("mouseup", BlipClicked(blipId), radarData)
        /\ UNCHANGED <<dragStartX, dragStartY, hasDragged, currentZoom, isPanning, panStartX,
                       panStartY, currentPanX, currentPanY, panStartOffsetX, panStartOffsetY,
                       panning, transform, reached>>

\* End drag and save position, or trigger click if no drag occurred
endDrag(clientX, clientY, rect) ==
    LET blipId == draggedBlip
        coords == getSvgCoordinates(clientX, clientY, rect, currentZoom)
        polar == cartesianToPolar(coords.x, coords.y, maxRadius)
        r == clamp(polar.r, 0, RScale)
    IN  /\ IF hasDragged
           THEN callThenClear("mouseup", BlipMoved(blipId, r, polar.theta),
                              RadarView_onBlipMove(radarData, blipId, r, polar.theta))
           ELSE callThenClear("mouseup", BlipClicked(blipId), radarData)
        /\ UNCHANGED <<dragStartX, dragStartY, hasDragged, currentZoom, isPanning, panStartX,
                       panStartY, currentPanX, currentPanY, panStartOffsetX, panStartOffsetY,
                       panning, transform, reached>>

\* End panning
endPan(event) ==
    /\ isPanning' = FALSE
    /\ panning' = FALSE
    /\ Observed(event, <<>>, FALSE)
    /\ UNCHANGED <<draggedBlip, dragStartX, dragStartY, hasDragged, currentZoom, panStartX,
                   panStartY, currentPanX, currentPanY, panStartOffsetX, panStartOffsetY,
                   dragging, transform, radarData, reached>>

\* Mouse up - end drag or pan
onMouseUp(p, rect) ==
    /\ gestureStart' = "none"
    /\ IF draggedBlip # NoBlip THEN endDrag(p[1], p[2], rect)
       ELSE IF isPanning THEN endPan("mouseup")
       ELSE /\ Observed("mouseup", <<>>, FALSE)
            /\ UNCHANGED <<interactionVars, dragging, panning, transform, radarData, reached>>

\* Touch end - end drag or pan.  touches is e.touches.length, the number of
\* fingers still down after the one that lifted; the handler does not read it.
onTouchEnd(touches) ==
    /\ gestureStart' = "none"
    /\ IF draggedBlip # NoBlip
       THEN LET blipId == draggedBlip
                match == ParseTranslate(transform[draggedBlip])
                polar == cartesianToPolar(match.x, match.y, maxRadius)
                r == clamp(polar.r, 0, RScale)
            IN  /\ IF hasDragged
                   THEN IF match.matched
                        THEN callThenClear("touchend", BlipMoved(blipId, r, polar.theta),
                                           RadarView_onBlipMove(radarData, blipId, r, polar.theta))
                        ELSE /\ dragging' = dragging \ {draggedBlip}
                             /\ draggedBlip' = NoBlip
                             /\ Observed("touchend", <<>>, FALSE)
                             /\ UNCHANGED radarData
                   ELSE callThenClear("touchend", BlipClicked(blipId), radarData)
                /\ UNCHANGED <<dragStartX, dragStartY, hasDragged, currentZoom, isPanning,
                               panStartX, panStartY, currentPanX, currentPanY, panStartOffsetX,
                               panStartOffsetY, panning, transform, reached>>
       ELSE IF isPanning THEN endPan("touchend")
       ELSE /\ Observed("touchend", <<>>, FALSE)
            /\ UNCHANGED <<interactionVars, dragging, panning, transform, radarData, reached>>

\* ------------------------------------------------------------ abnormal termination

\* Events that end a pointer sequence abnormally: the touch is cancelled, the
\* window loses focus, the pointer capture is lost.
AbortEvents == {"touchcancel", "blur"}

\* setupEventListeners registers no listener for any of them: the event
\* reaches no handler.
onAbort(event) == Ignored(event)

\* ------------------------------------------------------------ wheel

\* handleZoom announcing the zoom on every call, changed or not.
handleZoomAlwaysNotifies(deltaY) ==
    LET delta == IF deltaY > 0 THEN -zoomStep ELSE zoomStep
        newZoom == clamp(currentZoom + delta, minZoom, maxZoom)
    IN  /\ currentZoom' = newZoom
        /\ radarData' = RadarView_onZoomChange(radarData, newZoom)
        /\ Observed("wheel", <<ZoomChanged(newZoom)>>, FALSE)
        /\ UNCHANGED <<currentPanX, currentPanY>>

\* Handle zoom from wheel delta
handleZoom(deltaY) ==
    LET delta == IF deltaY > 0 THEN -zoomStep ELSE zoomStep
        newZoom == clamp(currentZoom + delta, minZoom, maxZoom)
    IN  /\ IF newZoom # currentZoom
           THEN /\ currentZoom' = newZoom
                /\ radarData' = RadarView_onZoomChange(radarData, newZoom)
                /\ Observed("wheel", <<ZoomChanged(newZoom)>>, FALSE)
           ELSE /\ UNCHANGED <<currentZoom, radarData>>
                /\ Observed("wheel", <<>>, FALSE)
        /\ UNCHANGED <<currentPanX, currentPanY>>

\* onWheel moving the offset captured at pointer-down along with the pan, so
\* that a pan gesture in progress retains the wheel's travel.
onWheelRetainedByPan(ctrlKey, deltaMode, deltaX, deltaY) ==
    /\ IF ctrlKey THEN handleZoom(deltaY) /\ UNCHANGED <<panStartOffsetX, panStartOffsetY>>
       ELSE IF deltaMode = 0
       THEN /\ Abs(currentPanX - deltaX) <= MaxPan
            /\ Abs(currentPanY - deltaY) <= MaxPan
            /\ currentPanX' = currentPanX - deltaX
            /\ currentPanY' = currentPanY - deltaY
            /\ panStartOffsetX' = panStartOffsetX - deltaX
            /\ panStartOffsetY' = panStartOffsetY - deltaY
            /\ radarData' = RadarView_onPanChange(radarData, currentPanX - deltaX, currentPanY - deltaY)
            /\ Observed("wheel", <<PanChanged(currentPanX - deltaX, currentPanY - deltaY)>>, FALSE)
            /\ UNCHANGED currentZoom
       ELSE handleZoom(deltaY) /\ UNCHANGED <<panStartOffsetX, panStartOffsetY>>
    /\ UNCHANGED <<draggedBlip, dragStartX, dragStartY, hasDragged, isPanning, panStartX,
                   panStartY, dragging, panning, transform, gestureStart, reached>>

\* onWheel deciding by deltaMode alone, without looking at ctrlKey.
onWheelByDeltaModeOnly(ctrlKey, deltaMode, deltaX, deltaY) ==
    /\ IF deltaMode = 0
       THEN /\ Abs(currentPanX - deltaX) <= MaxPan
            /\ Abs(currentPanY - deltaY) <= MaxPan
            /\ currentPanX' = currentPanX - deltaX
            /\ currentPanY' = currentPanY - deltaY
            /\ radarData' = RadarView_onPanChange(radarData, currentPanX - deltaX, currentPanY - deltaY)
            /\ Observed("wheel", <<PanChanged(currentPanX - deltaX, currentPanY - deltaY)>>, FALSE)
            /\ UNCHANGED currentZoom
       ELSE handleZoom(deltaY)
    /\ UNCHANGED <<draggedBlip, dragStartX, dragStartY, hasDragged, isPanning, panStartX,
                   panStartY, panStartOffsetX, panStartOffsetY, dragging, panning, transform,
                   gestureStart, reached>>

\* Wheel event - handles both zoom and pan depending on input device
onWheel(ctrlKey, deltaMode, deltaX, deltaY) ==
    /\ IF ctrlKey THEN handleZoom(deltaY)
       ELSE IF deltaMode = 0
       THEN /\ Abs(currentPanX - deltaX) <= MaxPan
            /\ Abs(currentPanY - deltaY) <= MaxPan
            /\ currentPanX' = currentPanX - deltaX
            /\ currentPanY' = currentPanY - deltaY
            /\ radarData' = RadarView_onPanChange(radarData, currentPanX - deltaX, currentPanY - deltaY)
            /\ Observed("wheel", <<PanChanged(currentPanX - deltaX, currentPanY - deltaY)>>, FALSE)
            /\ UNCHANGED currentZoom
       ELSE handleZoom(deltaY)
    /\ UNCHANGED <<draggedBlip, dragStartX, dragStartY, hasDragged, isPanning, panStartX,
                   panStartY, panStartOffsetX, panStartOffsetY, dragging, panning, transform,
                   gestureStart, reached>>

\* ------------------------------------------------------------ view coordinator

\* Set current zoom level (for syncing with external state)
setZoom(zoom) == currentZoom' = zoom

\* Set current pan offset (for syncing with external state)
setPan(panX, panY) == currentPanX' = panX /\ currentPanY' = panY

\* RadarView.setViewData -> renderRadar: the data of a radar file replaces
\* the model, the scene is rebuilt, a new RadarInteractions is constructed
\* and the saved view state is applied to it.
setViewData(viewState) ==
    /\ radarData' = [blips |-> SnapshotBlips, viewState |-> viewState]
    /\ transform' = [b \in Blips |-> renderBlip(SnapshotBlips[b])]
    /\ dragging' = {}
    /\ panning' = FALSE
    /\ NewInteractions
    /\ listeners' = destroy(listeners) \cup setupEventListeners("live")
    /\ IF viewState.zoom # ZoomDen \/ viewState.panX # 0 \/ viewState.panY # 0
       THEN setZoom(viewState.zoom) /\ setPan(viewState.panX, viewState.panY)
       ELSE setZoom(DefaultZoom) /\ setPan(0, 0)
    /\ Observed("setViewData", <<>>, FALSE)
    /\ UNCHANGED <<gestureStart, reached>>

\* RadarView.resetZoom (the toolbar's reset button): reset both zoom and pan
resetZoom ==
    /\ radarData' = RadarView_onPanChange(RadarView_onZoomChange(radarData, ZoomDen), 0, 0)
    /\ setZoom(ZoomDen)
    /\ setPan(0, 0)
    /\ Observed("resetZoom", <<>>, FALSE)
    /\ UNCHANGED <<draggedBlip, dragStartX, dragStartY, hasDragged, isPanning, panStartX,
                   panStartY, panStartOffsetX, panStartOffsetY, dragging, panning, transform,
                   gestureStart, reached>>

\* RadarView.zoomIn (the toolbar's zoom-in button): the data model's zoom
\* one step up, through RadarView.onZoomChange.
zoomIn ==
    /\ LET sum == radarData.viewState.zoom + zoomStep
           newZoom == IF sum < maxZoom THEN sum ELSE maxZoom
       IN  radarData' = RadarView_onZoomChange(radarData, newZoom)
    /\ Observed("zoomIn", <<>>, FALSE)
    /\ UNCHANGED <<interactionVars, dragging, panning, transform, gestureStart, reached>>

\* RadarView.zoomOut (the toolbar's zoom-out button): the data model's zoom
\* one step down, through RadarView.onZoomChange.
zoomOut ==
    /\ LET difference == radarData.viewState.zoom - zoomStep
           newZoom == IF difference > minZoom THEN difference ELSE minZoom
       IN  radarData' = RadarView_onZoomChange(radarData, newZoom)
    /\ Observed("zoomOut", <<>>, FALSE)
    /\ UNCHANGED <<interactionVars, dragging, panning, transform, gestureStart, reached>>

\* ------------------------------------------------------------ specification

\* A behaviour handles at most MaxSteps events.
CanHandle == steps < MaxSteps

MouseDown ==
    /\ CanHandle
    /\ Delivered("svg", "mousedown")
    /\ \E target \in Blips \cup {EmptyCanvas}, p \in DownPoints : onSvgMouseDown(target, p)

TouchStart ==
    /\ CanHandle
    /\ Delivered("svg", "touchstart")
    /\ \E target \in Blips \cup {EmptyCanvas}, p \in DownPoints, touches \in {1, 2} :
           onSvgTouchStart(target, p, touches)

MouseMove ==
    /\ CanHandle
    /\ Delivered("document", "mousemove")
    /\ \E p \in Points, rect \in SurfaceRects : onMouseMove(p, rect)

TouchMove ==
    /\ CanHandle
    /\ Delivered("document", "touchmove")
    /\ \E p \in Points, touches \in {0, 1, 2}, rect \in SurfaceRects : onTouchMove(p, touches, rect)

MouseUp ==
    /\ CanHandle
    /\ Delivered("document", "mouseup")
    /\ \E p \in Points, rect \in SurfaceRects : onMouseUp(p, rect)

TouchEnd ==
    /\ CanHandle
    /\ Delivered("document", "touchend")
    /\ \E touches \in {0, 1} : onTouchEnd(touches)

Wheel ==
    /\ CanHandle
    /\ Delivered("svg", "wheel")
    /\ \E ctrlKey \in BOOLEAN, deltaMode \in {0, 1, 2}, deltaX \in WheelDeltasX, deltaY \in WheelDeltasY :
           onWheel(ctrlKey, deltaMode, deltaX, deltaY)

\* A wheel event without vertical travel that the handler treats as zoom: a
\* mouse wheel scrolled sideways (deltaY = 0, deltaX # 0), or with ctrlKey.
WheelSideways ==
    /\ CanHandle
    /\ Delivered("svg", "wheel")
    /\ \E ctrlKey \in BOOLEAN, deltaMode \in {0, 1, 2}, deltaX \in WheelDeltasX :
           /\ ctrlKey \/ deltaMode # 0
           /\ onWheel(ctrlKey, deltaMode, deltaX, 0)

Abort ==
    /\ CanHandle
    /\ UNCHANGED listeners
    /\ \E event \in AbortEvents : onAbort(event)

SetViewData == CanHandle /\ \E viewState \in PersistedViewStates : setViewData(viewState)

ResetZoom == CanHandle /\ UNCHANGED listeners /\ resetZoom

ZoomIn == CanHandle /\ UNCHANGED listeners /\ zoomIn

ZoomOut == CanHandle /\ UNCHANGED listeners /\ zoomOut

Next ==
    \/ MouseDown
    \/ TouchStart
    \/ MouseMove
    \/ TouchMove
    \/ MouseUp
    \/ TouchEnd
    \/ Wheel
    \/ WheelSideways
    \/ Abort
    \/ SetViewData
    \/ ResetZoom
    \/ ZoomIn
    \/ ZoomOut

Spec == Init /\ [][Next]_vars

\* Behaviours of mouse events only: every gesture begins with a mousedown
\* and ends with a mouseup.
MouseNext ==
    \/ MouseDown
    \/ MouseMove
    \/ MouseUp

MouseSpec == Init /\ [][MouseNext]_vars

\* The coordinate utilities called on their own, on arguments drawn from the
\* input sets.  They are pure functions: a behaviour makes one call.
ClassifyByRadius ==
    /\ utilityCall = NoCall
    /\ \E r \in Radii, priorities \in PriorityLists :
           utilityCall' = Called("getPriorityFromRadius", <<r, priorities>>,
                          getPriorityFromRadius(r, priorities))
    /\ UNCHANGED viewVars

ClassifyByAngle ==
    /\ utilityCall = NoCall
    /\ \E theta \in Thetas, categories \in CategoryLists :
           utilityCall' = Called("getCategoryFromAngle", <<theta, categories>>,
                          getCategoryFromAngle(theta, categories))
    /\ UNCHANGED viewVars

RoundTrip ==
    /\ utilityCall = NoCall
    /\ \E r \in RoundTripRadii, theta \in RoundTripThetas, R \in RoundTripMaxRadii :
           LET point == polarToCartesian(r, theta, R)
           IN  utilityCall' = Called("cartesianToPolar", <<r, theta, R>>,
                              cartesianToPolar(point.x, point.y, R))
    /\ UNCHANGED viewVars

Clamp ==
    /\ utilityCall = NoCall
    /\ \E v \in ClampValues, lo \in ClampBounds, hi \in ClampBounds :
           utilityCall' = Called("clamp", <<v, lo, hi>>, clamp(v, lo, hi))
    /\ UNCHANGED viewVars

PlaceCategoryLabel ==
    /\ utilityCall = NoCall
    /\ \E categories \in CategoryLists \ {<<>>} :
           \E category \in Elements(categories) :
               utilityCall' = Called("categoryLabelAngle", <<category, categories>>,
                              categoryLabelAngle(category, categories))
    /\ UNCHANGED viewVars

UtilNext ==
    \/ PlaceCategoryLabel
    \/ ClassifyByRadius
    \/ ClassifyByAngle
    \/ RoundTrip
    \/ Clamp

UtilSpec == Init /\ [][UtilNext]_vars

\* ------------------------------------------------------------ the view and its scene

\* Every variable but the view.
deviceVars == <<draggedBlip, dragStartX, dragStartY, hasDragged, currentZoom,
                isPanning, panStartX, panStartY, currentPanX, currentPanY,
                panStartOffsetX, panStartOffsetY, dragging, panning, transform,
                radarData, lastEvent, intents, threw, gestureStart, reached,
                listeners, utilityCall, steps>>

\* The ids the operations on blips are given: of a blip of every file that
\* holds blips, of the blip addBlip adds, and of no blip.
SceneBlipIds == {"b1", GeneratedId, UnknownId}

\* The zoom values (quarters: minZoom and maxZoom) and pan offsets of the
\* zoom and pan intents.
SceneZooms == {2, 16}
ScenePans == {<<0, 0>>, <<-2, 4>>}

\* What an operation leaves for observation: the clock has advanced and the
\* operation and its arguments are recorded.
Handled(v, op, args) ==
    [v EXCEPT !.now = @ + 1, !.call = [op |-> op, args |-> args]]

\* TextFileView.requestSave
requestSave(v) == [v EXCEPT !.saves = @ + 1]

\* The data the renderer renders from.
RendererData(v) ==
    IF v.renderer.radarData = [shared |-> TRUE] THEN v.radarData ELSE v.renderer.radarData

\* RadarView.setViewData -> renderRadar: the file's data becomes the model
\* (after clear() when the host asks for it), the interaction instance the
\* view holds is destroyed, a new renderer and a new interaction instance
\* are constructed, and a view state other than the default one is applied
\* to the renderer.
LoadFile ==
    /\ view.now <= MaxCalls
    /\ \E file \in RadarFiles, clear \in BOOLEAN :
           LET renderer == NewRenderer(file)
               viewState == file.viewState
           IN  view' = Handled([view EXCEPT
                   !.radarData = file,
                   !.listeners = destroy(@) \cup setupEventListeners("live"),
                   !.renderer =
                       IF viewState.zoom # DefaultZoom \/ viewState.panX # 0
                              \/ viewState.panY # 0
                       THEN RadarRenderer_setTransform(renderer, viewState.zoom,
                                                       viewState.panX, viewState.panY)
                       ELSE renderer],
                   "setViewData", <<file, clear>>)
    /\ UNCHANGED deviceVars

\* data that JSON.parse rejects
Unparsable == [unparsable |-> TRUE]

\* setViewData forgetting the model when the data does not parse.
LoadInvalidDataForgetting ==
    /\ view.now <= MaxCalls
    /\ \E clear \in BOOLEAN :
           view' = Handled([view EXCEPT !.radarData = NoRadar,
                                        !.renderer = IF clear THEN NoRenderer ELSE @,
                                        !.listeners = IF clear THEN destroy(@) ELSE @],
                           "setViewData", <<Unparsable, clear>>)
    /\ UNCHANGED deviceVars

\* RadarView.setViewData with data JSON.parse rejects: clear() when the
\* host asks for it, then the exception is caught and showError replaces the
\* content of the container; no field of the view is assigned.
LoadInvalidData ==
    /\ view.now <= MaxCalls
    /\ \E clear \in BOOLEAN :
           view' = Handled(IF clear
                           THEN [view EXCEPT !.radarData = NoRadar,
                                             !.renderer = NoRenderer,
                                             !.listeners = destroy(@)]
                           ELSE view,
                           "setViewData", <<Unparsable, clear>>)
    /\ UNCHANGED deviceVars

\* clear() leaving the interaction instance as it is.
ClearViewWithoutDestroy ==
    /\ view.now <= MaxCalls
    /\ \E op \in {"clear", "onClose"} :
           view' = Handled([view EXCEPT !.radarData = NoRadar, !.renderer = NoRenderer],
                           op, <<>>)
    /\ UNCHANGED deviceVars

\* RadarView.clear, called by the host and by onClose: the model is
\* dropped, the renderer and the interaction instance are destroyed.
ClearView ==
    /\ view.now <= MaxCalls
    /\ \E op \in {"clear", "onClose"} :
           view' = Handled([view EXCEPT !.radarData = NoRadar, !.renderer = NoRenderer,
                                        !.listeners = destroy(@)],
                           op, <<>>)
    /\ UNCHANGED deviceVars

\* RadarView.getViewData: the serialization of the model when the view
\* holds one, and the host's raw data otherwise.
getViewData(v) ==
    IF v.radarData # NoRadar THEN [from |-> "radarData", value |-> v.radarData]
    ELSE [from |-> "data", value |-> NoRadar]

\* Handle blip position change from drag
BlipMovedIntent ==
    /\ view.now <= MaxCalls
    /\ \E blipId \in SceneBlipIds, position \in ScenePositions :
           LET r == position[1]
               theta == position[2]
           IN  view' = Handled(
                   IF view.radarData = NoRadar THEN view
                   ELSE requestSave([view EXCEPT !.radarData =
                            RadarStore_updateBlipPosition(@, blipId, r, theta, view.now)]),
                   "onBlipMove", <<blipId, r, theta>>)
    /\ UNCHANGED deviceVars

\* Handle zoom change
ZoomChangedIntent ==
    /\ view.now <= MaxCalls
    /\ \E zoom \in SceneZooms :
           view' = Handled(
               IF view.radarData = NoRadar THEN view
               ELSE requestSave([view EXCEPT
                        !.radarData.viewState.zoom = zoom,
                        !.renderer = IF @ = NoRenderer THEN @
                                     ELSE RadarRenderer_setZoom(@, zoom)]),
               "onZoomChange", <<zoom>>)
    /\ UNCHANGED deviceVars

\* Handle pan change
PanChangedIntent ==
    /\ view.now <= MaxCalls
    /\ \E pan \in ScenePans :
           LET panX == pan[1]
               panY == pan[2]
           IN  view' = Handled(
                   IF view.radarData = NoRadar THEN view
                   ELSE requestSave([view EXCEPT
                            !.radarData.viewState.panX = panX,
                            !.radarData.viewState.panY = panY,
                            !.renderer = IF @ = NoRenderer THEN @
                                         ELSE RadarRenderer_setPan(@, panX, panY)]),
                   "onPanChange", <<panX, panY>>)
    /\ UNCHANGED deviceVars

\* RadarView.addBlip, from the add-note and add-text modals: a blip with a
\* generated id at r = 0.5 and a random angle.
AddBlip ==
    /\ view.now <= MaxCalls
    /\ view.radarData # NoRadar => IndexOfBlip(view.radarData.blips, GeneratedId) = 0
    /\ \E theta \in {45, 300} :
           view' = Handled(
               IF view.radarData = NoRadar THEN view
               ELSE requestSave([view EXCEPT
                        !.radarData = RadarStore_addBlip(@, GeneratedId, 50, theta, view.now),
                        !.renderer = IF @ = NoRenderer THEN @
                                     ELSE RadarRenderer_addBlip(@,
                                              FileBlip(GeneratedId, 50, theta, view.now))]),
               "addBlip", <<GeneratedId, 50, theta>>)
    /\ UNCHANGED deviceVars

\* RadarView.removeBlip, from the menu of a blip.
RemoveBlip ==
    /\ view.now <= MaxCalls
    /\ \E blipId \in SceneBlipIds :
           view' = Handled(
               IF view.radarData = NoRadar THEN view
               ELSE requestSave([view EXCEPT
                        !.radarData = RadarStore_removeBlip(@, blipId, view.now),
                        !.renderer = IF @ = NoRenderer THEN @
                                     ELSE RadarRenderer_removeBlip(@, blipId)]),
               "removeBlip", <<blipId>>)
    /\ UNCHANGED deviceVars

\* The operations of the renderer called on their own: render, updateData,
\* updateBlipPosition, addBlip, removeBlip and setZoom.
RendererCall ==
    /\ view.now <= MaxCalls
    /\ view.renderer # NoRenderer
    /\ \/ view' = Handled([view EXCEPT !.renderer = render(@, RendererData(view))],
                          "render", <<>>)
       \/ \E file \in RadarFiles :
              view' = Handled([view EXCEPT !.renderer =
                                   render([@ EXCEPT !.radarData = file], file)],
                              "updateData", <<file>>)
       \/ \E blipId \in SceneBlipIds, position \in ScenePositions :
              view' = Handled([view EXCEPT !.renderer =
                                   RadarRenderer_updateBlipPosition(@, blipId,
                                       position[1], position[2])],
                              "updateBlipPosition", <<blipId, position[1], position[2]>>)
       \/ \E blipId \in SceneBlipIds, position \in ScenePositions :
              view' = Handled([view EXCEPT !.renderer =
                                   RadarRenderer_addBlip(@,
                                       FileBlip(blipId, position[1], position[2], view.now))],
                              "renderer.addBlip", <<blipId, position[1], position[2]>>)
       \/ \E blipId \in SceneBlipIds :
              view' = Handled([view EXCEPT !.renderer =
                                   RadarRenderer_removeBlip(@, blipId)],
                              "renderer.removeBlip", <<blipId>>)
       \/ \E zoom \in SceneZooms :
              view' = Handled([view EXCEPT !.renderer = RadarRenderer_setZoom(@, zoom)],
                              "setZoom", <<zoom>>)
    /\ UNCHANGED deviceVars

\* RadarView.zoomIn and RadarView.zoomOut, from the toolbar's buttons: the
\* model's zoom one step up or down, kept within [minZoom, maxZoom], handed
\* to RadarView.onZoomChange.
ToolbarZoom ==
    /\ view.now <= MaxCalls
    /\ \E button \in {"zoomIn", "zoomOut"} :
           view' = Handled(
               IF view.radarData = NoRadar THEN view
               ELSE LET zoom == view.radarData.viewState.zoom
                        newZoom == IF button = "zoomIn"
                                   THEN (IF zoom + zoomStep < maxZoom
                                         THEN zoom + zoomStep ELSE maxZoom)
                                   ELSE (IF zoom - zoomStep > minZoom
                                         THEN zoom - zoomStep ELSE minZoom)
                    IN  requestSave([view EXCEPT
                            !.radarData.viewState.zoom = newZoom,
                            !.renderer = IF @ = NoRenderer THEN @
                                         ELSE RadarRenderer_setZoom(@, newZoom)]),
               button, <<>>)
    /\ UNCHANGED deviceVars

SceneNext ==
    \/ LoadFile
    \/ LoadInvalidData
    \/ ClearView
    \/ BlipMovedIntent
    \/ ZoomChangedIntent
    \/ PanChangedIntent
    \/ AddBlip
    \/ RemoveBlip
    \/ RendererCall
    \/ ToolbarZoom

SceneSpec == Init /\ [][SceneNext]_vars

\* ------------------------------------------------------------ properties

PointerDown == {"mousedown", "touchstart"}

PointerMove == {"mousemove", "touchmove"}

PointerUp == {"mouseup", "touchend"}

\* A handler called this.options.<callback>.
Emitted(calls, callback) == \E i \in DOMAIN calls : calls[i].intent = callback

\* The polar position of what a blip element displays: its transform
\* attribute, as the last pointer-move of a drag wrote it.
LivePolar(blipId) ==
    LET match == ParseTranslate(transform[blipId])
        polar == cartesianToPolar(match.x, match.y, maxRadius)
    IN  [r |-> clamp(polar.r, 0, RScale), theta |-> polar.theta]

\* The polar position of a pointer position on the surface, under the
\* current zoom.
PointerPolar(p, rect) ==
    LET coords == getSvgCoordinates(p[1], p[2], rect, currentZoom)
        polar == cartesianToPolar(coords.x, coords.y, maxRadius)
    IN  [r |-> clamp(polar.r, 0, RScale), theta |-> polar.theta]

\* screenToLogical as the specification states its contract: subtract the
\* screen-space centre of the surface, undo the pan offset (screen pixels),
\* divide by zoom, divide by the base pixel-to-logical-unit scale.
screenToLogical(clientX, clientY, rect, zoom, panX, panY) ==
    LET offsetX == FDiv(Rat(2 * (clientX - panX) - (2 * rect.left + rect.width), 2), Rat(zoom, ZoomDen))
        offsetY == FDiv(Rat(2 * (clientY - panY) - (2 * rect.top + rect.height), 2), Rat(zoom, ZoomDen))
        baseScale == Rat(rect.width, viewBoxSize)
    IN  [x |-> FDiv(offsetX, baseScale), y |-> FDiv(offsetY, baseScale)]

\* A wheel event the handler treats as zoom, with deltaY <= 0 (zoom in).
ZoomInWheel ==
    \E ctrlKey \in BOOLEAN, deltaMode \in {0, 1, 2}, deltaX \in WheelDeltasX, deltaY \in WheelDeltasY :
        (ctrlKey \/ deltaMode # 0) /\ deltaY <= 0 /\ onWheel(ctrlKey, deltaMode, deltaX, deltaY)

\* A wheel event the handler treats as zoom, with deltaY > 0 (zoom out).
ZoomOutWheel ==
    \E ctrlKey \in BOOLEAN, deltaMode \in {0, 1, 2}, deltaX \in WheelDeltasX, deltaY \in WheelDeltasY :
        (ctrlKey \/ deltaMode # 0) /\ deltaY > 0 /\ onWheel(ctrlKey, deltaMode, deltaX, deltaY)

\* A single-pointer move to p, from the mouse or from touch.
PointerMoveTo(p) ==
    \E rect \in SurfaceRects : onMouseMove(p, rect) \/ onTouchMove(p, 1, rect)

\* A single-pointer down on empty canvas, from the mouse or from touch.
PointerDownOnEmpty ==
    \E p \in DownPoints : onSvgMouseDown(EmptyCanvas, p) \/ onSvgTouchStart(EmptyCanvas, p, 1)

\* C1: for a gesture that begins on a blip, pointer-up produces a click
\* intent and no move when the movement from the down-point stayed under
\* DRAG_THRESHOLD (5 px), and a move intent and no click when the movement
\* reached DRAG_THRESHOLD or more, exactly 5 px included.
C1_ClickBelowThresholdMoveFromThreshold ==
    [][(gestureStart = "blip" /\ draggedBlip # NoBlip /\ lastEvent' \in PointerUp)
           => IF reached
              THEN Emitted(intents', "onBlipMove") /\ ~Emitted(intents', "onBlipClick")
              ELSE Emitted(intents', "onBlipClick") /\ ~Emitted(intents', "onBlipMove")]_vars

\* C2: with the callbacks RadarView passes, every pointer-up (mouseup or
\* touchend) while a blip is being dragged removes the drag affordance from
\* that blip and leaves no blip dragged, whether the gesture ends as a move
\* or as a click.
C2_PointerUpEndsDrag ==
    [][(draggedBlip # NoBlip /\ lastEvent' \in PointerUp)
           => (draggedBlip' = NoBlip /\ draggedBlip \notin dragging')]_vars

\* C3: once hasDragged is true for a blip being dragged it stays true until
\* the pointer-up: across later pointer-moves (back inside the threshold
\* too), wheel events and further pointer-downs from mouse or touch.
C3_HasDraggedLatches ==
    [][(draggedBlip # NoBlip /\ hasDragged
            /\ lastEvent' \in PointerMove \cup PointerDown \cup {"wheel"})
           => hasDragged']_vars

\* C4: every blip-moved intent carries r in [0, 1] and theta in [0, 360).
C4_MovedPositionInRange ==
    \A i \in DOMAIN intents :
        intents[i].intent = "onBlipMove"
            => /\ 0 <= intents[i].a /\ intents[i].a <= RScale
               /\ 0 <= intents[i].b /\ intents[i].b < 360

\* C5 (as claimed): the position a blip-moved intent carries is the polar
\* conversion of the blip's last live position, on the mouse path as well as
\* on the touch path.
C5_MovedIsLastLivePosition ==
    [][(draggedBlip # NoBlip /\ lastEvent' \in PointerUp /\ Emitted(intents', "onBlipMove"))
           => intents' = <<BlipMoved(draggedBlip, LivePolar(draggedBlip).r,
                                     LivePolar(draggedBlip).theta)>>]_vars

\* C5 (amended): on the touch path the position a blip-moved intent carries
\* is the polar conversion of the blip's last live position; on the mouse
\* path it is the polar conversion of the mouse-up event's own coordinates
\* under the zoom and surface rectangle at release.
C5_MovedPositionByPath ==
    [][/\ (draggedBlip # NoBlip /\ hasDragged /\ lastEvent' = "touchend"
                  /\ \E touches \in {0, 1} : onTouchEnd(touches))
              => intents' = <<BlipMoved(draggedBlip, LivePolar(draggedBlip).r,
                                        LivePolar(draggedBlip).theta)>>
       /\ \A p \in Points, rect \in SurfaceRects :
              (draggedBlip # NoBlip /\ hasDragged /\ lastEvent' = "mouseup" /\ onMouseUp(p, rect))
                  => intents' = <<BlipMoved(draggedBlip, PointerPolar(p, rect).r,
                                            PointerPolar(p, rect).theta)>>]_vars

\* C5 witness: a mouse-up has just emitted a blip-moved intent whose position
\* differs from the blip's last live position.
C5_MouseReleasedAwayFromLivePosition ==
    /\ lastEvent = "mouseup"
    /\ Len(intents) = 1
    /\ intents[1].intent = "onBlipMove"
    /\ ~threw
    /\ <<intents[1].a, intents[1].b>>
           # <<LivePolar(intents[1].blipId).r, LivePolar(intents[1].blipId).theta>>

\* C6: getSvgCoordinates undoes the pan as well as the zoom: under the
\* current pan and zoom it returns, for every pointer position, the logical
\* canvas point displayed there.
C6_UndoesPanAndZoom ==
    \A p \in Points, rect \in SurfaceRects :
        rect.width > 0
            => getSvgCoordinates(p[1], p[2], rect, currentZoom)
                   = screenToLogical(p[1], p[2], rect, currentZoom, currentPanX, currentPanY)

\* C7: at the maximum zoom a zoom-in wheel event leaves the zoom unchanged and
\* emits no zoom-changed intent, however many arrive in a row; symmetrically
\* for zoom-out wheel events at the minimum zoom.
C7_ZoomSaturatesSilently ==
    [][/\ (currentZoom = maxZoom /\ ZoomInWheel)
              => (currentZoom' = maxZoom /\ ~Emitted(intents', "onZoomChange"))
       /\ (currentZoom = minZoom /\ ZoomOutWheel)
              => (currentZoom' = minZoom /\ ~Emitted(intents', "onZoomChange"))]_vars

\* C7 witness: two zoom-in wheel events in a row were handled at the maximum
\* zoom: the last one emitted nothing and the zoom is still the maximum.
C7_WheelAtMaximumZoom ==
    /\ lastEvent = "wheel"
    /\ intents = <<>>
    /\ currentZoom = maxZoom
    /\ steps >= 3

\* C8: the zoom stays within [minZoom, maxZoom] after any sequence of wheel
\* events, setZoom calls and restores of a persisted view state.
C8_ZoomWithinBounds == minZoom <= currentZoom /\ currentZoom <= maxZoom

C10_PanEndsIdleWithoutBlipIntents ==
    [][/\ (isPanning /\ draggedBlip = NoBlip /\ lastEvent' \in PointerUp)
              => (~isPanning' /\ ~panning' /\ draggedBlip' = NoBlip)
       /\ gestureStart = "empty"
              => (~Emitted(intents', "onBlipClick") /\ ~Emitted(intents', "onBlipMove"))]_vars

\* A touch event of a second finger: its touchstart (two touches down), a
\* touchmove reporting two touches, or its touchend while one finger is still
\* down.
SecondFingerEvent ==
    \/ \E target \in Blips \cup {EmptyCanvas}, p \in DownPoints : onSvgTouchStart(target, p, 2)
    \/ \E p \in Points, rect \in SurfaceRects : onTouchMove(p, 2, rect)
    \/ onTouchEnd(1)

\* C11: a second touch point arriving during a one-finger gesture is ignored:
\* none of its events (touchstart, touchmove with two touches, its touchend
\* while the first finger is still down) ends the gesture, emits an intent or
\* alters the tracked coordinates.
C11_SecondFingerIgnored ==
    [][((draggedBlip # NoBlip \/ isPanning) /\ lastEvent \in {"touchstart", "touchmove"}
            /\ SecondFingerEvent)
           => (intents' = <<>> /\ UNCHANGED <<interactionVars, dragging, panning, transform>>)]_vars

C13_AbortForcesIdle ==
    [][((draggedBlip # NoBlip \/ isPanning) /\ lastEvent' \in AbortEvents)
           => /\ draggedBlip' = NoBlip /\ ~isPanning'
              /\ dragging' = {} /\ ~panning'
              /\ ~Emitted(intents', "onBlipMove") /\ ~Emitted(intents', "onBlipClick")]_vars

\* C14: constructing and tearing down interaction instances registers and
\* removes the document-scope listeners in matched pairs: after each destroy
\* no document listener of a destroyed instance is left, so the document
\* carries as many listeners as before the instance was constructed.
C14_DocumentListenersPaired ==
    {l \in listeners : l.target = "document" /\ l.owner = "destroyed"} = {}

\* C14 witness: an instance has been destroyed and the next one constructed:
\* the document carries the four listeners of the live instance.
C14_RebuiltOnce ==
    /\ lastEvent = "setViewData"
    /\ steps >= 2
    /\ {l.type : l \in {k \in listeners : k.target = "document"}}
           = {"mousemove", "mouseup", "touchmove", "touchend"}
    /\ Cardinality({k \in listeners : k.target = "document"}) = 4

\* C15: a single destroy() removes every device listener the instance
\* registered at construction: the mousedown and touchstart listeners on the
\* drawing surface as well as the document and wheel listeners.
C15_DestroyRemovesEveryListener ==
    {l \in listeners : l.owner = "destroyed"} = {}

C17_CircularPartition ==
    /\ utilityCall.op = "getCategoryFromAngle"
           => LET categories == utilityCall.args[2]
                  normalized == utilityCall.args[1] % 360
                  starts == {c.startAngle : c \in Elements(categories)}
                  below == {a \in starts : a <= normalized}
                  owner == IF below # {} THEN below ELSE starts
              IN  IF categories = <<>> THEN utilityCall.result = UndefinedCategory
                  ELSE /\ utilityCall.result \in Elements(categories)
                       /\ utilityCall.result.startAngle \in owner
                       /\ \A a \in owner : a <= utilityCall.result.startAngle
    /\ LET c1 == [id |-> "c1", startAngle |-> 0]
           c2 == [id |-> "c2", startAngle |-> 90]
           c3 == [id |-> "c3", startAngle |-> 180]
           c4 == [id |-> "c4", startAngle |-> 270]
           quadrants == <<c3, c1, c4, c2>>
       IN  /\ getCategoryFromAngle(45, quadrants) = c1
           /\ getCategoryFromAngle(0, quadrants) = c1
           /\ getCategoryFromAngle(359, quadrants) = c4
           /\ getCategoryFromAngle(-10, quadrants) = c4

\* C17 witness: a negative theta was classified against a list that is not
\* in ascending order and landed in a segment that is not the wraparound one.
C17_NegativeThetaInInnerSegment ==
    /\ utilityCall.op = "getCategoryFromAngle"
    /\ utilityCall.args[1] < 0
    /\ Len(utilityCall.args[2]) = 4
    /\ utilityCall.args[2][1].startAngle > utilityCall.args[2][2].startAngle
    /\ \E c \in Elements(utilityCall.args[2]) : c.startAngle > utilityCall.result.startAngle

\* The distance between two angles on the circle, in degrees.
AngleDistance(a, b) ==
    LET d == (a - b) % 360
    IN  IF d <= 180 THEN d ELSE 360 - d

\* The resolution of the model: a hundredth of the radius, a degree of angle.
WithinTolerance(polar, r, theta) ==
    /\ polar.r # PolarNaN
    /\ polar.theta # PolarNaN
    /\ Abs(polar.r - r) <= 1
    /\ AngleDistance(polar.theta, theta) <= 1

\* C18 as stated: for all r in [0, 1], r = 0 included, all theta in [0, 360)
\* and R > 0, cartesianToPolar of polarToCartesian(r, theta, R) is (r, theta)
\* within tolerance.
C18_RoundTripEverywhere ==
    utilityCall.op = "cartesianToPolar"
        => WithinTolerance(utilityCall.result, utilityCall.args[1], utilityCall.args[2])

\* C18 amended: for all r in (0, 1], all theta in [0, 360) and R > 0,
\* cartesianToPolar of polarToCartesian(r, theta, R) is (r, theta) within
\* tolerance; at r = 0 it is r = 0 with theta 0 for theta in [0, 90] and in
\* (270, 360), and theta 180 for theta in (90, 270]: the angle is not
\* recovered at the centre.
C18_RoundTripAwayFromCentre ==
    utilityCall.op = "cartesianToPolar"
        => LET r == utilityCall.args[1]
               theta == utilityCall.args[2]
           IN  IF r > 0 THEN WithinTolerance(utilityCall.result, r, theta)
               ELSE /\ utilityCall.result.r = 0
                    /\ utilityCall.result.theta
                           = IF theta > 90 /\ theta <= 270 THEN 180 ELSE 0

\* C18 witness: a position on the rim in the third quadrant went through the
\* round trip at the pixel radius of the radar.
C18_RimRoundTrip ==
    /\ utilityCall.op = "cartesianToPolar"
    /\ utilityCall.args = <<RScale, 217, maxRadius>>
    /\ utilityCall.result.r >= RScale - 1
    /\ utilityCall.result.theta \in 216..218

\* C19: clamp is idempotent, clamp(clamp(v, lo, hi), lo, hi) = clamp(v, lo, hi)
\* for all v, lo, hi, and for lo <= hi the result is a number of [lo, hi].
C19_ClampIdempotentInRange ==
    utilityCall.op = "clamp"
        => LET lo == utilityCall.args[2]
               hi == utilityCall.args[3]
           IN  /\ clamp(utilityCall.result, lo, hi) = utilityCall.result
               /\ lo <= hi => /\ utilityCall.result # PolarNaN
                              /\ lo <= utilityCall.result
                              /\ utilityCall.result <= hi

\* C20: in every reachable state of a rendered view (after any sequence of
\* wheel events, pan gestures and toolbar zoom-in, zoom-out and reset
\* actions) the interaction component's zoom and pan equal the data model's
\* viewState zoom, panX and panY.
C20_InteractionViewStateInSync ==
    /\ currentZoom = radarData.viewState.zoom
    /\ currentPanX = radarData.viewState.panX
    /\ currentPanY = radarData.viewState.panY

\* The element of blip b is displayed where its stored polar position
\* projects to: the same transform, or one whose polar conversion is the
\* stored position at the resolution of the model.
DisplayedAtStoredPosition(b) ==
    LET shown == ParseTranslate(transform[b])
        stored == radarData.blips[b]
    IN  \/ transform[b] = renderBlip(stored)
        \/ /\ shown.matched
           /\ stored.r # PolarNaN
           /\ WithinTolerance(cartesianToPolar(shown.x, shown.y, maxRadius), stored.r, stored.theta)

\* C23: whenever the machine is Idle (after any completed gesture, click or
\* move, wherever the pointer was released) every blip element is displayed
\* at the Cartesian projection of the blip's stored polar position.
C23_SceneMatchesModelWhenIdle ==
    (draggedBlip = NoBlip /\ ~isPanning) => \A b \in Blips : DisplayedAtStoredPosition(b)

\* C24: a wheel event treated as zoom changes the zoom by one zoomStep in the
\* direction of the sign of deltaY (down for deltaY > 0, up for deltaY < 0,
\* not at all for deltaY = 0), clamped to the zoom bounds, and zoom-changed
\* is emitted if and only if the zoom changed.
C24_ZoomStepsBySignOfDeltaY ==
    [][\A ctrlKey \in BOOLEAN, deltaMode \in {0, 1, 2}, deltaX \in WheelDeltasX,
          deltaY \in WheelDeltasY \cup {0} :
           (lastEvent' = "wheel" /\ (ctrlKey \/ deltaMode # 0)
                /\ onWheel(ctrlKey, deltaMode, deltaX, deltaY))
               => /\ currentZoom' = clamp(currentZoom - Sgn(deltaY) * zoomStep, minZoom, maxZoom)
                  /\ Emitted(intents', "onZoomChange") <=> currentZoom' # currentZoom]_vars

\* A transform attribute that is not `translate(x,y)` with two numbers:
\* missing, of another shape, or with a NaN or infinite coordinate.
MalformedTransform(attr) ==
    LET match == ParseTranslate(attr)
    IN  ~match.matched \/ match.x.d = 0 \/ match.y.d = 0

\* C30: a touch-move with zero or more than one active touch changes no state
\* and emits nothing; a touch-end of a drag whose element has a missing or
\* malformed transform emits no intent, throws nothing, clears the drag
\* affordance and returns the machine to Idle.
C30_AnomaliesFailSoft ==
    [][/\ \A p \in Points, rect \in SurfaceRects, touches \in {0, 2} :
              (lastEvent' = "touchmove" /\ onTouchMove(p, touches, rect))
                  => /\ intents' = <<>> /\ ~threw'
                     /\ UNCHANGED <<interactionVars, dragging, panning, transform, radarData>>
       /\ (draggedBlip # NoBlip /\ hasDragged /\ MalformedTransform(transform[draggedBlip])
               /\ lastEvent' = "touchend" /\ \E touches \in {0, 1} : onTouchEnd(touches))
              => /\ intents' = <<>> /\ ~threw'
                 /\ draggedBlip' = NoBlip /\ ~isPanning'
                 /\ draggedBlip \notin dragging']_vars

\* C29: the label of a category is placed at the angular midpoint between
\* the category's start and the next start in ascending order with
\* wraparound (the next start plus 360 when it is not greater; the full
\* circle for a single category), normalized into [0, 360).
C29_LabelAtSegmentMidpoint ==
    utilityCall.op = "categoryLabelAngle"
        => LET start == utilityCall.args[1].startAngle
               starts == {c.startAngle : c \in Elements(utilityCall.args[2])}
               above == {a \in starts : a > start}
               next == IF above # {} THEN CHOOSE a \in above : \A b \in above : a <= b
                       ELSE CHOOSE a \in starts : \A b \in starts : a <= b
               end == IF next > start THEN next ELSE next + 360
           IN  utilityCall.result = Rat((start + end) % 720, 2)


\* C21: an operation that names a blip id no blip carries changes nothing.
\* An onBlipMove for an id the loaded data model does not hold leaves the
\* whole model as it was, blip positions and every updatedAt included; so
\* does the coordinator's removeBlip, which also leaves the scene as it was;
\* the renderer's updateBlipPosition and removeBlip for an id no blip element
\* carries leave the scene as it was.
C21_UnknownBlipIdIsNoOp ==
    [][LET call == view'.call
       IN  /\ (/\ view'.now # view.now
               /\ call.op \in {"onBlipMove", "removeBlip"}
               /\ view.radarData # NoRadar
               /\ IndexOfBlip(view.radarData.blips, call.args[1]) = 0)
                  => /\ view'.radarData = view.radarData
                     /\ (call.op = "onBlipMove"
                            \/ IndexOfBlip(view.renderer.blips, call.args[1]) = 0)
                           => view'.renderer = view.renderer
           /\ (/\ view'.now # view.now
               /\ call.op \in {"updateBlipPosition", "renderer.removeBlip"}
               /\ IndexOfBlip(view.renderer.blips, call.args[1]) = 0)
                  => /\ view'.renderer = view.renderer
                     /\ view'.radarData = view.radarData
      ]_vars

\* C21 witness: onBlipMove for an id no blip carries has been handled with a
\* radar loaded that holds blips.
C21_Witness_UnknownIdMoved ==
    /\ view.call.op = "onBlipMove"
    /\ view.call.args[1] = UnknownId
    /\ view.radarData # NoRadar
    /\ view.radarData.blips # <<>>
    /\ view.saves = 1

\* C22: every intent the coordinator receives while a radar is loaded is
\* written into the data model and followed by one save request: after
\* onBlipMove(id, r, theta) for an id the model holds, that blip has exactly
\* r and theta; after onZoomChange(z) the view state's zoom is z; after
\* onPanChange(x, y) its panX is x and its panY is y.  With no radar loaded
\* the intent changes neither model nor scene and requests no save.
C22_IntentsWrittenAndSaved ==
    [][LET call == view'.call
           intent == /\ view'.now # view.now
                     /\ call.op \in {"onBlipMove", "onZoomChange", "onPanChange"}
       IN  /\ (intent /\ view.radarData # NoRadar)
                  => /\ view'.saves = view.saves + 1
                     /\ view'.radarData # NoRadar
                     /\ (call.op = "onBlipMove"
                            /\ IndexOfBlip(view.radarData.blips, call.args[1]) # 0)
                           => LET blip == view'.radarData.blips[
                                      IndexOfBlip(view'.radarData.blips, call.args[1])]
                              IN  blip.r = call.args[2] /\ blip.theta = call.args[3]
                     /\ call.op = "onZoomChange"
                           => view'.radarData.viewState.zoom = call.args[1]
                     /\ call.op = "onPanChange"
                           => /\ view'.radarData.viewState.panX = call.args[1]
                              /\ view'.radarData.viewState.panY = call.args[2]
           /\ (intent /\ view.radarData = NoRadar)
                  => /\ view'.radarData = NoRadar
                     /\ view'.renderer = view.renderer
                     /\ view'.saves = view.saves
      ]_vars

\* C22 witness: a second intent has been written and saved, an onBlipMove
\* that stored a position outside the unit disc for a blip of the model.
C22_Witness_MoveWritten ==
    /\ view.call.op = "onBlipMove"
    /\ view.call.args = <<"b1", 150, 400>>
    /\ view.radarData # NoRadar
    /\ \E i \in DOMAIN view.radarData.blips :
           /\ view.radarData.blips[i].id = "b1"
           /\ view.radarData.blips[i].r = 150
           /\ view.radarData.blips[i].theta = 400
    /\ view.saves = 2


\* The translation the style transform holds ((0, 0) when it holds none).
TranslateOf(style) ==
    IF \E i \in DOMAIN style : style[i].fn = "translate"
    THEN (CHOOSE f \in Elements(style) : f.fn = "translate").args
    ELSE <<0, 0>>

\* C25: zoom and pan changes compose in the transform of the scene.  After a
\* zoom change (onZoomChange, or the renderer's setZoom) the style transform
\* holds the new scale and the translation it held; after a pan change
\* (onPanChange) it holds the new translation and the scale it held; after a
\* file is loaded it holds the scale and the translation of the file's view
\* state; and none of them changes a ring, divider or blip element.
C25_ZoomAndPanCompose ==
    [][LET call == view'.call
           applied == /\ view'.now # view.now
                      /\ view.radarData # NoRadar
                      /\ view.renderer # NoRenderer
       IN  /\ (applied /\ call.op \in {"onZoomChange", "setZoom"})
                  => /\ ScaleOf(view'.renderer.style) = call.args[1]
                     /\ TranslateOf(view'.renderer.style)
                            = TranslateOf(view.renderer.style)
                     /\ view'.renderer.background = view.renderer.background
                     /\ view'.renderer.categories = view.renderer.categories
                     /\ view'.renderer.blips = view.renderer.blips
           /\ (applied /\ call.op = "onPanChange")
                  => /\ TranslateOf(view'.renderer.style) = call.args
                     /\ ScaleOf(view'.renderer.style) = ScaleOf(view.renderer.style)
                     /\ view'.renderer.background = view.renderer.background
                     /\ view'.renderer.categories = view.renderer.categories
                     /\ view'.renderer.blips = view.renderer.blips
           /\ (view'.now # view.now /\ call.op = "setViewData"
                   /\ call.args[1] \in RadarFiles)
                  => /\ ScaleOf(view'.renderer.style) = call.args[1].viewState.zoom
                     /\ TranslateOf(view'.renderer.style)
                            = <<call.args[1].viewState.panX, call.args[1].viewState.panY>>
      ]_vars


\* A blip at r clamped into [0, 1] and theta normalized into [0, 360).
ClampedBlip(r, theta) == [r |-> clamp(r, 0, RScale), theta |-> theta % 360]

\* The distance of a blip element from the center is at most maxRadius
\* (compared in tenths of a pixel, with one pixel of tolerance).
WithinMaxRadius(element) ==
    LET x == element.transform.args[1]
        y == element.transform.args[2]
        tenthsX == (Abs(x.n) * 10) \div x.d
        tenthsY == (Abs(y.n) * 10) \div y.d
        limit == (maxRadius + 1) * 10
    IN  tenthsX * tenthsX + tenthsY * tenthsY <= limit * limit

\* C26: the renderer draws every blip at the position of its r clamped into
\* [0, 1] and its theta normalized into [0, 360): the element updateBlipPosition
\* moves and the element addBlip appends carry the transform of the clamped
\* position, a full render (construction, render, updateData) gives every
\* element the transform of its blip's clamped position, and no blip element
\* of the scene is farther than maxRadius from the center.
C26_RendererClampsGeometry ==
    [][LET call == view'.call
           called == view'.now # view.now /\ view'.renderer # NoRenderer
           elements == view'.renderer.blips
       IN  /\ (called /\ call.op = "updateBlipPosition"
                      /\ IndexOfBlip(view.renderer.blips, call.args[1]) # 0)
                  => elements[IndexOfBlip(elements, call.args[1])].transform
                         = renderBlip(ClampedBlip(call.args[2], call.args[3]))
           /\ (called /\ call.op \in {"renderer.addBlip", "addBlip"}
                      /\ view.renderer # NoRenderer)
                  => elements[Len(elements)].transform
                         = renderBlip(ClampedBlip(call.args[2], call.args[3]))
           /\ (called /\ call.op \in {"setViewData", "render", "updateData"})
                  => LET blips == RendererData(view').blips
                     IN  /\ Len(elements) = Len(blips)
                         /\ \A i \in DOMAIN blips :
                                elements[i].transform
                                    = renderBlip(ClampedBlip(blips[i].r, blips[i].theta))
           /\ called => \A i \in DOMAIN elements : WithinMaxRadius(elements[i])
      ]_vars


\* C27: the incremental operations of the renderer change only what they
\* name.  updateBlipPosition(id, r, theta) changes the transform of one
\* element carrying that id and nothing else: every other blip element, the
\* ids and the order of the blip elements, the rings, the dividers, the order
\* of the groups and the style transform stay as they were.  addBlip and
\* removeBlip, called on the renderer or through the view, change the blips
\* layer only.
C27_IncrementalOperationsAreSurgical ==
    [][LET call == view'.call
           called == /\ view'.now # view.now
                     /\ view.renderer # NoRenderer
                     /\ view'.renderer # NoRenderer
           before == view.renderer
           after == view'.renderer
           restUnchanged == /\ after.background = before.background
                            /\ after.categories = before.categories
                            /\ after.children = before.children
                            /\ after.style = before.style
       IN  /\ (called /\ call.op = "updateBlipPosition")
                  => /\ restUnchanged
                     /\ Len(after.blips) = Len(before.blips)
                     /\ \A i \in DOMAIN before.blips :
                            /\ after.blips[i].id = before.blips[i].id
                            /\ i # IndexOfBlip(before.blips, call.args[1])
                                   => after.blips[i] = before.blips[i]
           /\ (called /\ call.op \in {"renderer.addBlip", "renderer.removeBlip",
                                      "addBlip", "removeBlip"})
                  => restUnchanged
      ]_vars

\* C27 witness: updateBlipPosition has moved the element of b1, the first of
\* two, and the element of b2 is where the render put it.
C27_Witness_OneElementMoved ==
    /\ view.call = [op |-> "updateBlipPosition", args |-> <<"b1", 25, 180>>]
    /\ view.renderer # NoRenderer
    /\ Len(view.renderer.blips) = 2
    /\ view.renderer.blips[1] = [id |-> "b1", transform |-> renderBlip([r |-> 25, theta |-> 180])]
    /\ view.renderer.blips[2] = [id |-> "b2", transform |-> renderBlip([r |-> 100, theta |-> 90])]

\* C28: the drawing surface holds the three groups in the order rings
\* (radar-background), dividers (radar-categories), blips (radar-blips), after
\* construction and after every sequence of operations.
C28_LayersInFixedOrder ==
    view.renderer # NoRenderer
        => view.renderer.children = <<"radar-background", "radar-categories", "radar-blips">>

\* C28 witness: the scene after three operations that ended with a full
\* render from other data (updateData) which drew blips.
C28_Witness_RenderedAgain ==
    /\ view.call.op = "updateData"
    /\ view.now = MaxCalls + 1
    /\ view.renderer # NoRenderer
    /\ view.renderer.blips # <<>>
    /\ view.renderer.style # <<>>


\* C31: the machine is in exactly one of Idle, DraggingBlip and Panning: in
\* no reachable state is a blip being dragged while isPanning is true.
C31_OneStateAtATime == ~(draggedBlip # NoBlip /\ isPanning)

\* C32: the affordances match the gesture state: at most one blip element
\* carries the class "dragging", only the blip being dragged carries it, and
\* while the machine is Idle no blip carries it and the surface does not
\* carry the class "panning".
C32_AffordancesMatchState ==
    /\ Cardinality(dragging) <= 1
    /\ dragging \subseteq {draggedBlip}
    /\ (draggedBlip = NoBlip /\ ~isPanning) => (dragging = {} /\ ~panning)


\* The callbacks RadarView.renderRadar passes to the RadarRenderer
\* constructor: renderBlip registers a click listener on every blip element
\* when onBlipClick is among them.
RendererOptions == {"onBlipClick"}

\* The pointer at the client position p is on the centre of the element of
\* blip b: with the default zoom and no pan, the surface point under the
\* pointer is the one the element's transform names.
PointerOnBlip(b, p, rect) ==
    /\ rect.width > 0
    /\ currentZoom = DefaultZoom /\ currentPanX = 0 /\ currentPanY = 0
    /\ radarData.viewState = DEFAULT_VIEW_STATE
    /\ transform[b] = FormatTranslate(getSvgCoordinates(p[1], p[2], rect, currentZoom))

\* The browser dispatches a click to the element of blip b after the mouseup
\* at p: the mousedown of the gesture was on that element and so is the
\* mouseup.
NativeClickOn(b, p, rect) ==
    /\ gestureStart = "blip"
    /\ draggedBlip = b
    /\ ~isPanning
    /\ PointerOnBlip(b, p, rect)

\* How many times RadarView.onBlipClick runs for the gesture the mouseup at
\* p ends: called by RadarInteractions (calls is what the handler called on
\* its options), and called by the renderer's click listener.
ClickHandlings(p, rect, calls) ==
    (IF Emitted(calls, "onBlipClick") /\ Callable("onBlipClick") THEN 1 ELSE 0)
        + (IF "onBlipClick" \in RendererOptions
                 /\ \E b \in Blips : NativeClickOn(b, p, rect)
           THEN 1 ELSE 0)

\* C33: the view's blip-click handling runs at most once for a mouse gesture
\* on a blip, and not at all for a gesture whose movement crossed the drag
\* threshold, counting the click intent of RadarInteractions and the click
\* listener of the renderer.
C33_ClickHandledOncePerGesture ==
    [][\A p \in Points, rect \in SurfaceRects :
           (/\ lastEvent' = "mouseup"
            /\ gestureStart = "blip"
            /\ draggedBlip # NoBlip
            /\ onMouseUp(p, rect))
               => /\ ClickHandlings(p, rect, intents') <= 1
                  /\ hasDragged => ClickHandlings(p, rect, intents') = 0]_vars


\* C34: a toolbar zoom-in with the model's zoom at maxZoom, and a toolbar
\* zoom-out with it at minZoom, leaves viewState.zoom as it was and requests
\* no save.
C34_ToolbarZoomSaturatesSilently ==
    [][LET call == view'.call
           pressed == view'.now # view.now /\ view.radarData # NoRadar
       IN  /\ (pressed /\ call.op = "zoomIn"
                       /\ view.radarData.viewState.zoom = maxZoom)
                  => /\ view'.radarData.viewState.zoom = maxZoom
                     /\ view'.saves = view.saves
           /\ (pressed /\ call.op = "zoomOut"
                       /\ view.radarData.viewState.zoom = minZoom)
                  => /\ view'.radarData.viewState.zoom = minZoom
                     /\ view'.saves = view.saves
      ]_vars


\* C35: an instance with no gesture of its own in progress (no pointer-down
\* on its surface since the last pointer-up) ignores the pointer-moves and
\* pointer-ups the document delivers, which are those of gestures begun on
\* another instance's surface: they emit no intent and change nothing of its
\* state, its scene or its model.  Within a blip gesture a pointer-move emits
\* neither onBlipMove nor onBlipClick.
C35_IdleIgnoresDocumentEvents ==
    [][/\ (gestureStart = "none" /\ lastEvent' \in PointerMove \cup PointerUp)
              => /\ intents' = <<>>
                 /\ UNCHANGED <<interactionVars, dragging, panning, transform, radarData>>
       /\ lastEvent' \in PointerMove
              => (~Emitted(intents', "onBlipMove") /\ ~Emitted(intents', "onBlipClick"))
      ]_vars

\* The same with Idle read off the fields of the instance: no blip is
\* dragged and isPanning is false.
IdleFieldsIgnoreDocumentEvents ==
    [][/\ (draggedBlip = NoBlip /\ ~isPanning /\ lastEvent' \in PointerMove \cup PointerUp)
              => /\ intents' = <<>>
                 /\ UNCHANGED <<interactionVars, dragging, panning, transform, radarData>>
       /\ lastEvent' \in PointerMove
              => (~Emitted(intents', "onBlipMove") /\ ~Emitted(intents', "onBlipClick"))
      ]_vars


\* C36: a destroyed instance emits no intent, whatever events follow and
\* whether or not a gesture was in progress when it was destroyed.  Intents
\* are emitted by the handlers of mousemove, mouseup, touchmove, touchend
\* and wheel; the listeners a destroyed instance still has are those of
\* mousedown and touchstart, whose handlers emit none.
C36_DestroyedEmitsNothing ==
    /\ \A l \in listeners : l.owner = "destroyed" => l.type \in PointerDown
    /\ lastEvent \in PointerDown => intents = <<>>

\* C36 witness: an instance was destroyed in the middle of a gesture on a
\* blip, and later a pointer-down was handled.
C36_Witness_DestroyedMidGesture ==
    /\ gestureStart = "blip"
    /\ \E l \in listeners : l.owner = "destroyed"
    /\ lastEvent \in PointerDown
    /\ steps = 3


\* C37: at most one interaction instance of the view has document listeners
\* registered: every listener on the document belongs to the instance the
\* view holds, none to an instance it has destroyed; and after clear or
\* onClose the document carries no listener of the view.
C37_OneInstanceListens ==
    /\ \A l \in view.listeners : l.target = "document" => l.owner = "live"
    /\ view.call.op \in {"clear", "onClose"}
           => {l \in view.listeners : l.target = "document"} = {}

\* C37 witness: the view was closed after two other calls; the instance it
\* held has been destroyed and the model dropped.
C37_Witness_ClosedAfterReloads ==
    /\ view.call.op = "onClose"
    /\ view.now = MaxCalls + 1
    /\ \E l \in view.listeners : l.owner = "destroyed"
    /\ view.radarData = NoRadar

\* C38: a failed load leaves no model behind.  After setViewData with data
\* that does not parse, with clear or without, the view holds no model and
\* getViewData returns the host's raw data; a following setViewData with the
\* data of a radar file makes that file the model and renders it.
C38_FailedLoadLeavesNoModel ==
    [][LET call == view'.call
           loaded == view'.now # view.now /\ call.op = "setViewData"
       IN  /\ (loaded /\ call.args[1] = Unparsable)
                  => /\ view'.radarData = NoRadar
                     /\ getViewData(view').from = "data"
           /\ (loaded /\ call.args[1] \in RadarFiles
                      /\ view.call.op = "setViewData" /\ view.call.args[1] = Unparsable)
                  => /\ view'.radarData = call.args[1]
                     /\ view'.renderer.blips
                            = NewRenderer(call.args[1]).blips
      ]_vars


\* The blips layer of the view's renderer mirrors the model's blip list: the
\* renderer renders from the model the view holds, the ids on the elements
\* are the ids of the model's blips, and each blip has exactly one element.
Mirrors(v) ==
    /\ v.radarData # NoRadar
    /\ v.renderer # NoRenderer
    /\ v.renderer.radarData = [shared |-> TRUE]
    /\ LET elements == v.renderer.blips
           blips == v.radarData.blips
       IN  /\ {elements[i].id : i \in DOMAIN elements} = {blips[i].id : i \in DOMAIN blips}
           /\ \A i \in DOMAIN blips :
                  Cardinality({j \in DOMAIN elements : elements[j].id = blips[i].id}) = 1

\* C39: a load leaves the blips layer mirroring the model; the coordinator's
\* addBlip and removeBlip and a full render keep it so; and after render()
\* another render() gives the same scene.
C39_BlipsLayerMirrorsModel ==
    [][LET op == view'.call.op
       IN  view'.now # view.now
               => /\ (op = "setViewData" /\ view'.call.args[1] \in RadarFiles)
                         => Mirrors(view')
                  /\ (op \in {"addBlip", "removeBlip", "render"} /\ Mirrors(view))
                         => Mirrors(view')
                  /\ op = "render"
                         => render(view'.renderer, RendererData(view')) = view'.renderer
      ]_vars

\* C39 witness: a blip was added, the blip b1 was removed, and the scene was
\* rendered in full; the layer mirrors the model.
C39_Witness_AddedRemovedRendered ==
    /\ view.call.op = "render"
    /\ view.now = MaxCalls + 1
    /\ Mirrors(view)
    /\ IndexOfBlip(view.radarData.blips, GeneratedId) # 0
    /\ IndexOfBlip(view.radarData.blips, "b1") = 0
    /\ view.saves = 2


====
